---------------------------- MODULE Spec2Model ----------------------------
(***************************************************************************)
(* A model of the event-driven backtester (ngmysamuel/backtester):         *)
(* NaivePortfolio, the ATR position sizer, SimpleRiskManager,              *)
(* SimulatedExecutionHandler, the data handlers and the driver loop of     *)
(* cli.run.                                                                *)
(*                                                                         *)
(* Numbers.  Python floats are modelled as decimal fixed-point numbers:    *)
(* an integer n stands for n / Scale.  Sums and differences are exact;     *)
(* products and quotients are truncated toward zero to the resolution      *)
(* (FMul, FDiv), the way a float operation rounds to the nearest           *)
(* representable value.  Prices, quantities, money, volumes and ratios are *)
(* all such numbers.  Timestamps are integer seconds.                      *)
(***************************************************************************)
EXTENDS Integers, Sequences, FiniteSets, TLC

VARIABLES
    pf,       \* the NaivePortfolio object
    history,  \* the bar store: (ticker, base interval) -> list of closed bars
    hatr,     \* ATRPositionSizer.historical_atr: ticker -> list of ATR values
    rm_ts,    \* SimpleRiskManager.order_timestamps
    limits,   \* SimpleRiskManager's limits, read from the configuration
    bm,       \* the BarManager: base_interval, aggregators, subscribers, history
    current_positions,  \* MovingAverageCrossover.current_positions
    events,   \* the event channel (queue.Queue), oldest first
    order_queue,         \* SimulatedExecutionHandler.order_queue (a deque)
    latest_symbol_data,  \* DataHandler.latest_symbol_data: ticker -> bars
    fills,    \* every fill emitted so far with the order it came from
              \* (history variable)
    event_queue,  \* cli.run's event_queue (queue.Queue), oldest first; each
                  \* entry is [seq, ev], seq numbering the puts
    drv,      \* the driver loop of cli.run and the data source
    cnt,      \* how many calls of each kind were made (bounds the model)
    last      \* the operation just performed and its inputs (history variable)

execVars == <<order_queue, latest_symbol_data, fills>>
drvVars == <<event_queue, drv>>
vars == <<pf, history, hatr, rm_ts, limits, bm, current_positions, events,
          order_queue, latest_symbol_data, fills, event_queue, drv, cnt, last>>

-----------------------------------------------------------------------------
(* Fixed-point arithmetic *)

Scale == 10 ^ 3

Abs(x) == IF x < 0 THEN -x ELSE x
Sign(x) == IF x < 0 THEN -1 ELSE IF x > 0 THEN 1 ELSE 0
Max2(a, b) == IF a >= b THEN a ELSE b
Min2(a, b) == IF a <= b THEN a ELSE b

\* integer quotient truncated toward zero (b # 0)
TruncDiv(a, b) ==
    IF (a >= 0) = (b > 0) THEN Abs(a) \div Abs(b) ELSE -(Abs(a) \div Abs(b))

Num(n) == n * Scale                   \* the whole number n
Milli(n) == (n * Scale) \div 1000     \* n thousandths
FMul(a, b) == TruncDiv(a * b, Scale)  \* a * b
FDiv(a, b) == TruncDiv(a * Scale, b)  \* a / b
FFloor(a) == (a \div Scale) * Scale   \* math.floor(a)
FInt(a) == TruncDiv(a, Scale) * Scale \* int(a)

RECURSIVE SumOver(_, _)
SumOver(f, S) ==
    IF S = {} THEN 0
    ELSE LET x == CHOOSE y \in S : TRUE IN f[x] + SumOver(f, S \ {x})

Last(s) == s[Len(s)]

-----------------------------------------------------------------------------
(* Configuration of the run *)

Tickers == {"A", "B"}
symbol_list == <<"A", "B">>

BUY == 1
SELL == -1
LONG == 1
SHORT == -1
HOLD == 0
EXIT == -2
SignalTypes == {LONG, SHORT, HOLD, EXIT}

BaseInterval == 60

initial_capital == Num(6)
initial_position_size == Num(2)
cash_buffer == Num(1)
maintenance_margin == Milli(500)
risk_per_trade == Milli(10)
daily_borrow_rate == Milli(10)
rounding_number == [t \in Tickers |-> IF t = "A" THEN 0 ELSE 1]
StrategyName == "moving_average"

atr_multiplier == Num(1)

-----------------------------------------------------------------------------
(* Bars.  A bar is [Index, open, high, low, close, volume]; Index is the   *)
(* bar's timestamp in seconds.                                             *)

MkBar(i, o, h, l, c, v) ==
    [Index |-> i, open |-> o, high |-> h, low |-> l, close |-> c, volume |-> v]

-----------------------------------------------------------------------------
(* FillEvent *)

\* FillEvent.calculate_ib_commission
calculate_ib_commission(quantity, fill_cost) ==
    LET full_cost == IF quantity <= Num(500)
                     THEN Max2(Milli(1300), FMul(Milli(13), quantity))
                     ELSE Max2(Milli(1300), FMul(Milli(8), quantity))
    IN Min2(full_cost, FMul(FMul(Milli(5), quantity), fill_cost))

\* FillEvent.__init__ with commission=None
FillEvent(timestamp, ticker, quantity, direction, fill_cost, unit_cost, slippage) ==
    [type |-> "FILL", timestamp |-> timestamp, ticker |-> ticker,
     quantity |-> quantity, direction |-> direction, fill_cost |-> fill_cost,
     unit_cost |-> unit_cost, slippage |-> slippage,
     commission |-> calculate_ib_commission(quantity, fill_cost)]

\* FillEvent.__init__ with a commission passed in (and slippage 0.0)
FillEventWithCommission(ts, ticker, quantity, direction, fill_cost, unit_cost, commission) ==
    [FillEvent(ts, ticker, quantity, direction, fill_cost, unit_cost, 0)
        EXCEPT !.commission = commission]

\* OrderEvent.__init__ (id is the uuid; order_type is "MKT" or "MOC")
OrderEvent(id, direction, ticker, order_type, quantity, timestamp) ==
    [type |-> "ORDER", id |-> id, direction |-> direction, ticker |-> ticker,
     order_type |-> order_type, quantity |-> quantity, timestamp |-> timestamp]

\* SignalEvent.__init__
SignalEvent(timestamp, ticker, signal_type, strength) ==
    [type |-> "SIGNAL", timestamp |-> timestamp, ticker |-> ticker,
     signal_type |-> signal_type, strength |-> strength]

\* MarketEvent.__init__
MarketEvent(timestamp, is_eod) ==
    [type |-> "MARKET", timestamp |-> timestamp, is_eod |-> is_eod]

-----------------------------------------------------------------------------
(* ATRPositionSizer *)

RECURSIVE Pow10(_)
Pow10(r) == IF r = 0 THEN 1 ELSE 10 * Pow10(r - 1)

\* get_position_size answering 0 where it has no usable ATR
get_position_size_zero_without_atr(atr_list, total_holdings, rounding) ==
    IF Len(atr_list) > 0 /\ Last(atr_list) # 0
    THEN LET position_size ==
                 FDiv(FMul(risk_per_trade, total_holdings),
                      FMul(Last(atr_list), atr_multiplier))
             multiplier == Num(Pow10(rounding))
         IN IF rounding = 0
            THEN [none |-> FALSE, size |-> FFloor(position_size)]
            ELSE [none |-> FALSE,
                  size |-> FDiv(FInt(FMul(position_size, multiplier)), multiplier)]
    ELSE [none |-> FALSE, size |-> 0]

\* ATRPositionSizer.get_position_size; [none |-> TRUE] stands for None
get_position_size(atr_list, total_holdings, rounding) ==
    IF Len(atr_list) > 0 /\ Last(atr_list) # 0
    THEN LET atr == Last(atr_list)
             capital_to_risk == FMul(risk_per_trade, total_holdings)
             position_size == FDiv(capital_to_risk, FMul(atr, atr_multiplier))
             multiplier == Num(Pow10(rounding))
         IN IF rounding = 0
            THEN [none |-> FALSE, size |-> FFloor(position_size)]
            ELSE [none |-> FALSE,
                  size |-> FDiv(FInt(FMul(position_size, multiplier)), multiplier)]
    ELSE [none |-> TRUE, size |-> 0]

-----------------------------------------------------------------------------
(* SimpleRiskManager *)

Disabled == Num(-1)  \* the value -1 of a limit

\* config["risk_manager"] of the run; RATE_LIMIT is a count, the other
\* limits are numbers
DefaultLimits ==
    [MAX_ORDER_QTY |-> Num(100), MAX_NOTIONAL_VAL |-> Num(10000),
     MAX_DAILY_LOSS |-> Milli(50), MAX_GROSS_EXPOSURE |-> Num(50000),
     MAX_NET_EXPOSURE |-> Num(25000), PARTICIPATION_LIMIT |-> Milli(500),
     RATE_LIMIT |-> 2]

\* SimpleRiskManager.__init__
MAX_ORDER_QTY == limits.MAX_ORDER_QTY
MAX_NOTIONAL_VAL == limits.MAX_NOTIONAL_VAL
MAX_DAILY_LOSS == limits.MAX_DAILY_LOSS
MAX_GROSS_EXPOSURE == limits.MAX_GROSS_EXPOSURE
MAX_NET_EXPOSURE == limits.MAX_NET_EXPOSURE
PARTICIPATION_WINDOW == 2
PARTICIPATION_LIMIT == limits.PARTICIPATION_LIMIT
RATE_LIMIT == limits.RATE_LIMIT
RATE_INTERVAL == 1

\* SimpleRiskManager._max_order_quantity_check (TRUE: the check passes)
max_order_quantity_check(order) ==
    ~(MAX_ORDER_QTY # Disabled /\ order.quantity > MAX_ORDER_QTY)

\* SimpleRiskManager._max_notional_value_check
max_notional_value_check(order, estimated_current_price) ==
    ~(MAX_NOTIONAL_VAL # Disabled
      /\ FMul(order.quantity, estimated_current_price) > MAX_NOTIONAL_VAL)

\* SimpleRiskManager._daily_loss_limit_check
daily_loss_limit_check(order, holdings, open_value) ==
    IF open_value # 0
    THEN LET pnl == FDiv(holdings.total - open_value, open_value)
             order_signed_quantity == order.direction * order.quantity
             net_direction == Sign(order_signed_quantity)
                              * Sign(holdings.position[order.ticker])
         IN ~(pnl < -MAX_DAILY_LOSS /\ net_direction > 0)
    ELSE TRUE

\* SimpleRiskManager._gross_exposure_check
gross_exposure_check(order, holdings, estimated_current_price) ==
    LET term == [t \in Tickers |->
                   IF t = order.ticker
                   THEN Abs(holdings.value[t]
                            + FMul(order.quantity, estimated_current_price)
                              * order.direction)
                   ELSE Abs(holdings.value[t])]
        gross_exposure == SumOver(term, Tickers)
    IN ~(MAX_GROSS_EXPOSURE # Disabled /\ gross_exposure > MAX_GROSS_EXPOSURE)

\* SimpleRiskManager._net_exposure_check
net_exposure_check(order, holdings, estimated_current_price) ==
    LET net_exposure == SumOver(holdings.value, Tickers)
        estimated_net_future_exposure ==
            net_exposure
            + FMul(order.quantity, estimated_current_price) * order.direction
    IN ~(MAX_NET_EXPOSURE # Disabled
         /\ Abs(estimated_net_future_exposure) > MAX_NET_EXPOSURE)

RECURSIVE SumVolume(_, _, _)
SumVolume(bars, from, to) ==
    IF from > to THEN 0 ELSE bars[from].volume + SumVolume(bars, from + 1, to)

\* _participation_check letting an order through when the window's average
\* volume is 0
participation_check_ignores_zero_volume(order, bars) ==
    IF Len(bars) >= PARTICIPATION_WINDOW
    THEN LET total_volume ==
                 SumVolume(bars, Len(bars) - PARTICIPATION_WINDOW + 1, Len(bars))
             avg_volume == TruncDiv(total_volume, PARTICIPATION_WINDOW)
         IN IF avg_volume # 0
            THEN ~(FDiv(order.quantity, avg_volume) > PARTICIPATION_LIMIT)
            ELSE TRUE
    ELSE TRUE

\* SimpleRiskManager._participation_check
participation_check(order, bars) ==
    IF Len(bars) >= PARTICIPATION_WINDOW
    THEN LET total_volume ==
                 SumVolume(bars, Len(bars) - PARTICIPATION_WINDOW + 1, Len(bars))
             avg_volume == TruncDiv(total_volume, PARTICIPATION_WINDOW)
         IN IF avg_volume # 0
            THEN ~(FDiv(order.quantity, avg_volume) > PARTICIPATION_LIMIT)
            ELSE FALSE
    ELSE TRUE

\* the while loop of SimpleRiskManager._rate_limit_check: the timestamps kept
RECURSIVE prune_timestamps(_, _)
prune_timestamps(ts, last_time_step) ==
    IF ts # <<>> /\ Head(ts) < last_time_step
    THEN prune_timestamps(Tail(ts), last_time_step)
    ELSE ts

\* SimpleRiskManager._rate_limit_check, on the pruned timestamps
rate_limit_check(pruned) == ~(Len(pruned) > RATE_LIMIT)

\* SimpleRiskManager.is_allowed: [allowed, ts]; now is time.time()
is_allowed(order, daily_open_value, bars, holdings, ts, now) ==
    IF bars = <<>> THEN [allowed |-> FALSE, ts |-> ts]
    ELSE LET estimated_current_price == Last(bars).close
             open_value == daily_open_value
             pruned == prune_timestamps(ts, now - RATE_INTERVAL)
         IN IF ~(/\ max_order_quantity_check(order)
                 /\ max_notional_value_check(order, estimated_current_price)
                 /\ daily_loss_limit_check(order, holdings, open_value)
                 /\ gross_exposure_check(order, holdings, estimated_current_price)
                 /\ net_exposure_check(order, holdings, estimated_current_price)
                 /\ participation_check(order, bars))
            THEN [allowed |-> FALSE, ts |-> ts]
            ELSE IF ~rate_limit_check(pruned)
            THEN [allowed |-> FALSE, ts |-> pruned]
            ELSE [allowed |-> TRUE, ts |-> Append(pruned, order.timestamp)]

-----------------------------------------------------------------------------
(* NaivePortfolio.  The record p holds current_holdings (position, value,  *)
(* margin, cash, total, commissions, borrow_costs, timestamp), the margin  *)
(* book margin_holdings, position_dict, daily_open_value and               *)
(* historical_holdings.  The last element of historical_holdings is the    *)
(* current_holdings object itself (on_market appends the fresh copy and    *)
(* goes on mutating it): hh holds the earlier, frozen elements and in_hh   *)
(* says whether current_holdings has been appended.                        *)

Holdings(p) ==
    [position |-> p.position, value |-> p.value, margin |-> p.margin,
     cash |-> p.cash, total |-> p.total, timestamp |-> p.timestamp]

\* NaivePortfolio.__init__
NewPortfolio ==
    [position |-> [t \in Tickers |-> 0],
     value |-> [t \in Tickers |-> 0],
     margin |-> [t \in Tickers |-> 0],
     cash |-> initial_capital,
     total |-> initial_capital,
     commissions |-> 0,
     borrow_costs |-> 0,
     timestamp |-> 0,
     margin_holdings |-> [t \in Tickers |-> 0],
     position_dict |-> [t \in Tickers |-> initial_position_size],
     dov_set |-> FALSE,
     dov |-> 0,
     has_history |-> FALSE,
     hh |-> <<>>,
     in_hh |-> FALSE]

\* the loop of NaivePortfolio.on_market over symbol_list[i..]
RECURSIVE mark_to_market(_, _, _)
mark_to_market(p, hist, i) ==
    IF i > Len(symbol_list) THEN p
    ELSE LET ticker == symbol_list[i]
             bar == Last(hist[ticker])
             initial_holding == p.value[ticker]
             v == FMul(p.position[ticker], bar.close)
         IN mark_to_market(
                [p EXCEPT !.value[ticker] = v,
                          !.total = @ + v - initial_holding,
                          !.timestamp = bar.Index],
                hist, i + 1)

\* NaivePortfolio.on_market: the state it leaves (also when it raises)
on_market(p, hist) ==
    LET p1 == [p EXCEPT !.commissions = 0, !.borrow_costs = 0,
                        !.hh = IF p.in_hh THEN Append(@, Holdings(p)) ELSE @,
                        !.in_hh = TRUE]
        p2 == mark_to_market(p1, hist, 1)
    IN IF ~p2.dov_set THEN [p2 EXCEPT !.dov_set = TRUE, !.dov = p2.total] ELSE p2

\* NaivePortfolio.on_market raises NegativeCashException
on_market_raises(p) == p.cash < 0

\* on_interval closing every position before it marks to market
on_interval_flattening(p, hist) ==
    on_market([p EXCEPT !.has_history = TRUE,
                        !.position = [t \in Tickers |-> 0]], hist)

\* NaivePortfolio.on_interval
on_interval(p, hist) == on_market([p EXCEPT !.has_history = TRUE], hist)

\* on_fill with the else branch of its margin section left out: a fill that
\* leaves the ticker flat or long keeps the margin frozen
on_fill_keeps_margin(p, event) ==
    LET t == event.ticker
        position == p.position[t] + event.direction * event.quantity
        cash_delta == -1 * event.direction * event.fill_cost - event.commission
        value == FMul(position, event.unit_cost)
        margin_diff == p.margin_holdings[t] + FMul(value, Num(1) + maintenance_margin)
        p1 == [p EXCEPT !.position[t] = position,
                        !.cash = @ + cash_delta,
                        !.commissions = @ + event.commission,
                        !.value[t] = value,
                        !.total = @ + value - p.value[t] + cash_delta]
    IN IF position < 0
       THEN [p1 EXCEPT !.cash = @ + margin_diff,
                       !.margin_holdings[t] = @ - margin_diff,
                       !.margin[t] = p.margin_holdings[t] - margin_diff]
       ELSE p1

\* on_fill resetting the margin of a ticker that is no longer short without
\* adding it back to cash
on_fill_forfeits_margin(p, event) ==
    LET t == event.ticker
        position == p.position[t] + event.direction * event.quantity
        cash_delta == -1 * event.direction * event.fill_cost - event.commission
        value == FMul(position, event.unit_cost)
        margin_diff == p.margin_holdings[t] + FMul(value, Num(1) + maintenance_margin)
        p1 == [p EXCEPT !.position[t] = position,
                        !.cash = @ + cash_delta,
                        !.commissions = @ + event.commission,
                        !.value[t] = value,
                        !.total = @ + value - p.value[t] + cash_delta]
        p2 == IF position < 0
              THEN [p1 EXCEPT !.cash = @ + margin_diff,
                              !.margin_holdings[t] = @ - margin_diff]
              ELSE [p1 EXCEPT !.margin_holdings[t] = 0]
    IN [p2 EXCEPT !.margin = p2.margin_holdings]

\* NaivePortfolio.on_fill
on_fill(p, event) ==
    LET t == event.ticker
        initial_holding == p.value[t]
        position == p.position[t] + event.direction * event.quantity
        cash_delta == -1 * event.direction * event.fill_cost - event.commission
        value == FMul(position, event.unit_cost)
        margin_diff == p.margin_holdings[t] + FMul(value, Num(1) + maintenance_margin)
        p1 == [p EXCEPT !.position[t] = position,
                        !.cash = @ + cash_delta,
                        !.commissions = @ + event.commission,
                        !.value[t] = value,
                        !.total = @ + value - initial_holding + cash_delta]
        p2 == IF position < 0
              THEN [p1 EXCEPT !.cash = @ + margin_diff,
                              !.margin_holdings[t] = @ - margin_diff]
              ELSE [p1 EXCEPT !.cash = @ + p1.margin_holdings[t],
                              !.margin_holdings[t] = 0]
    IN [p2 EXCEPT !.margin = p2.margin_holdings]

\* the loop of end_of_day charging no borrow cost
RECURSIVE end_of_day_loop_without_borrow_cost(_, _, _)
end_of_day_loop_without_borrow_cost(p, hist, i) ==
    IF i > Len(symbol_list) THEN p
    ELSE LET ticker == symbol_list[i]
             latest_bar == Last(hist[ticker])
             value == FMul(p.position[ticker], latest_bar.close)
             p1 == [p EXCEPT !.value[ticker] = value, !.total = @ + value]
             margin_diff == p1.margin_holdings[ticker]
                            + FMul(value, Num(1) + maintenance_margin)
             p2 == IF p1.position[ticker] < 0
                   THEN [p1 EXCEPT
                           !.cash = @ + margin_diff,
                           !.margin_holdings[ticker] = @ - margin_diff,
                           !.total = @ + (p1.margin_holdings[ticker] - margin_diff)]
                   ELSE [p1 EXCEPT
                           !.cash = @ + p1.margin_holdings[ticker],
                           !.margin_holdings[ticker] = 0]
         IN end_of_day_loop_without_borrow_cost(p2, hist, i + 1)

\* the loop of NaivePortfolio.end_of_day over symbol_list[i..]
RECURSIVE end_of_day_loop(_, _, _)
end_of_day_loop(p, hist, i) ==
    IF i > Len(symbol_list) THEN p
    ELSE LET ticker == symbol_list[i]
             latest_bar == Last(hist[ticker])
             value == FMul(p.position[ticker], latest_bar.close)
             p1 == [p EXCEPT !.value[ticker] = value, !.total = @ + value]
             margin_diff == p1.margin_holdings[ticker]
                            + FMul(value, Num(1) + maintenance_margin)
             daily_borrow_cost == FMul(Abs(value), daily_borrow_rate)
             p2 == IF p1.position[ticker] < 0
                   THEN [p1 EXCEPT
                           !.cash = @ + margin_diff - daily_borrow_cost,
                           !.margin_holdings[ticker] = @ - margin_diff,
                           !.total = @ + (p1.margin_holdings[ticker] - margin_diff),
                           !.borrow_costs = @ + daily_borrow_cost]
                   ELSE [p1 EXCEPT
                           !.cash = @ + p1.margin_holdings[ticker],
                           !.margin_holdings[ticker] = 0]
         IN end_of_day_loop(p2, hist, i + 1)

\* end_of_day without its last addition, total += cash
end_of_day_without_cash(p, hist) ==
    [end_of_day_loop([p EXCEPT !.total = 0], hist, 1)
        EXCEPT !.dov_set = FALSE, !.dov = 0]

\* NaivePortfolio.end_of_day
end_of_day(p, hist) ==
    LET p1 == end_of_day_loop([p EXCEPT !.total = 0], hist, 1)
    IN [p1 EXCEPT !.total = @ + p1.cash, !.dov_set = FALSE, !.dov = 0]

\* build_order sizing every order at the target alone, as if the position
\* were flat
build_order_from_flat(p, event, estimated_price, target0, id) ==
    LET ticker == event.ticker
        cur_quantity == p.position[ticker]
    IN IF event.signal_type = -1
       THEN [none |-> FALSE, eff |-> p.cash, target |-> target0,
             order |-> OrderEvent(id, SELL, ticker, "MKT", target0, event.timestamp)]
       ELSE IF event.signal_type = 1
       THEN [none |-> FALSE, eff |-> p.cash, target |-> target0,
             order |-> OrderEvent(id, BUY, ticker, "MKT", target0, event.timestamp)]
       ELSE [none |-> cur_quantity = 0, eff |-> p.cash, target |-> target0,
             order |-> OrderEvent(id, IF cur_quantity > 0 THEN SELL ELSE BUY,
                                  ticker, "MKT", Abs(cur_quantity), event.timestamp)]

\* NaivePortfolio.on_signal up to the affordability clamp: the order built
\* ([none |-> TRUE] when order is None), target_quantity and
\* eff_cash_available as they stand after the if/elif/else on signal_type
build_order(p, event, estimated_price, target0, id) ==
    LET ticker == event.ticker
        cur_quantity == p.position[ticker]
        cash == p.cash
    IN IF event.signal_type = -1
       THEN LET eff == IF cur_quantity > 0
                       THEN cash + FMul(cur_quantity, estimated_price) ELSE cash
                tq == IF cur_quantity > 0 THEN target0 + cur_quantity ELSE target0
            IN [none |-> FALSE, eff |-> eff, target |-> tq,
                order |-> OrderEvent(id, SELL, ticker, "MKT", tq, event.timestamp)]
       ELSE IF event.signal_type = 1
       THEN LET eff == IF cur_quantity < 0
                       THEN cash + p.margin_holdings[ticker] ELSE cash
                tq == IF cur_quantity < 0 THEN target0 + Abs(cur_quantity) ELSE target0
            IN [none |-> FALSE, eff |-> eff, target |-> tq,
                order |-> OrderEvent(id, BUY, ticker, "MKT", tq, event.timestamp)]
       ELSE IF cur_quantity > 0
       THEN [none |-> FALSE, eff |-> cash, target |-> target0,
             order |-> OrderEvent(id, SELL, ticker, "MKT", cur_quantity, event.timestamp)]
       ELSE IF cur_quantity < 0
       THEN [none |-> FALSE, eff |-> cash, target |-> target0,
             order |-> OrderEvent(id, BUY, ticker, "MKT", Abs(cur_quantity), event.timestamp)]
       ELSE [none |-> TRUE, eff |-> cash, target |-> target0,
             order |-> OrderEvent(id, BUY, ticker, "MKT", 0, event.timestamp)]

\* max_affordable_qty of NaivePortfolio.on_signal
max_affordable_qty(direction, eff_cash_available, estimated_price) ==
    IF direction = BUY
    THEN FDiv(FMul(eff_cash_available, cash_buffer), estimated_price)
    ELSE FDiv(FMul(eff_cash_available, cash_buffer),
              Num(1) + FMul(maintenance_margin, estimated_price))

\* the affordability clamp of NaivePortfolio.on_signal (estimated_price > 0)
clamp(b, estimated_price) ==
    LET m == max_affordable_qty(b.order.direction, b.eff, estimated_price)
    IN IF b.target > m THEN [b.order EXCEPT !.quantity = m] ELSE b.order

\* the end of on_signal putting the order whatever is_allowed answers
submit_unconditionally(quiet, order, r) ==
    [quiet EXCEPT !.ts = r.ts, !.out = <<order>>, !.built = <<order>>,
                  !.rejected = ~r.allowed]

\* the end of NaivePortfolio.on_signal: the order is put on the event
\* channel if is_allowed answers True (r is is_allowed's result)
submit(quiet, order, r) ==
    IF r.allowed
    THEN [quiet EXCEPT !.ts = r.ts, !.out = <<order>>, !.built = <<order>>]
    ELSE [quiet EXCEPT !.ts = r.ts, !.built = <<order>>, !.rejected = TRUE]

\* NaivePortfolio.on_signal.  atr_list is the sizer's list for the ticker,
\* ts the risk manager's timestamps, now the wall clock, id the new order's
\* id.  Result: p (the portfolio after), ts, out (the orders pushed),
\* raised (order is None where order.direction is read: AttributeError),
\* built (the order handed to is_allowed, if any), rejected (is_allowed
\* answered False), sized_none (the sizer returned None), target (the
\* target_quantity stored in position_dict) and unclamped (the order as
\* constructed by the if/elif/else on signal_type, if any).
on_signal(p, event, hist, atr_list, ts, now, id) ==
    LET ticker == event.ticker
        sized == get_position_size(atr_list, p.total, rounding_number[ticker])
        target_quantity == IF sized.none THEN p.position_dict[ticker] ELSE sized.size
        p1 == [p EXCEPT !.position_dict[ticker] = target_quantity]
        target0 == FMul(target_quantity, event.strength)
        bars == hist[ticker]
        quiet == [p |-> p1, ts |-> ts, out |-> <<>>, raised |-> FALSE,
                  built |-> <<>>, rejected |-> FALSE,
                  sized_none |-> sized.none, target |-> target_quantity,
                  unclamped |-> <<>>]
    IN IF bars = <<>> THEN quiet
       ELSE LET estimated_price == Last(bars).close
                b == build_order(p1, event, estimated_price, target0, id)
            IN IF estimated_price > 0 /\ b.none
               THEN [quiet EXCEPT !.raised = TRUE]
               ELSE IF b.none THEN quiet
               ELSE LET order == IF estimated_price > 0
                                 THEN clamp(b, estimated_price) ELSE b.order
                        r == is_allowed(order, IF p1.dov_set THEN p1.dov ELSE 0,
                                        bars, p1, ts, now)
                    IN submit([quiet EXCEPT !.unclamped = <<b.order>>], order, r)

\* NaivePortfolio.liquidate
RECURSIVE liquidate_loop(_, _, _)
liquidate_loop(p, hist, i) ==
    IF i > Len(symbol_list) THEN p
    ELSE LET ticker == symbol_list[i]
             latest_bar == Last(hist[ticker])
             p1 == IF p.position[ticker] < 0
                   THEN [p EXCEPT !.cash = @ + p.margin_holdings[ticker],
                                  !.margin_holdings[ticker] = 0]
                   ELSE p
         IN liquidate_loop(
                [p1 EXCEPT !.cash = @ + FMul(p1.position[ticker], latest_bar.close),
                           !.position[ticker] = 0,
                           !.value[ticker] = 0,
                           !.margin[ticker] = 0],
                hist, i + 1)

\* liquidate without its last assignment, total = cash
liquidate_keeping_total(p, hist) ==
    liquidate_loop([p EXCEPT !.commissions = 0, !.borrow_costs = 0,
                             !.timestamp = @ + BaseInterval,
                             !.hh = IF p.in_hh THEN Append(@, Holdings(p)) ELSE @,
                             !.in_hh = TRUE],
                   hist, 1)

\* len(historical_holdings)
NumSnapshots(p) == Len(p.hh) + (IF p.in_hh THEN 1 ELSE 0)

liquidate(p, hist) ==
    LET p1 == [p EXCEPT !.commissions = 0, !.borrow_costs = 0,
                        !.timestamp = @ + BaseInterval,
                        !.hh = IF p.in_hh THEN Append(@, Holdings(p)) ELSE @,
                        !.in_hh = TRUE]
        p2 == liquidate_loop(p1, hist, 1)
    IN [p2 EXCEPT !.total = p2.cash]

-----------------------------------------------------------------------------
(* ATRPositionSizer.on_interval and BarManager.on_heartbeat *)

\* DataHandler.get_latest_bars(symbol) with n = 1
get_latest_bars(lsd, symbol) ==
    IF lsd[symbol] = <<>> THEN <<>> ELSE <<Last(lsd[symbol])>>

atr_window == 1

\* max(h - l, |h - c_prev|, |l - c_prev|)
true_range(bar, prev_close) ==
    Max2(bar.high - bar.low,
         Max2(Abs(bar.high - prev_close), Abs(bar.low - prev_close)))

\* the sum of the True Ranges of hist[i..Len(hist)], first being the first
\* row of the frame (its shifted close is NaN, so its True Range is h - l)
RECURSIVE sum_true_range(_, _, _)
sum_true_range(hist, i, first) ==
    IF i > Len(hist) THEN 0
    ELSE (IF i = first THEN hist[i].high - hist[i].low
          ELSE true_range(hist[i], hist[i - 1].close))
         + sum_true_range(hist, i + 1, first)

\* ATRPositionSizer._calc_atr; 0 stands for None as well (both are falsy)
calc_atr(atr_list, hist) ==
    IF atr_list = <<>>
    THEN IF Len(hist) < atr_window + 1 THEN 0
         ELSE FDiv(sum_true_range(hist, Len(hist) - atr_window,
                                  Len(hist) - atr_window),
                   Num(atr_window + 1))
    ELSE LET tr == true_range(hist[Len(hist)], hist[Len(hist) - 1].close)
             w == FDiv(Num(1), Num(atr_window))
         IN FMul(w, tr) + FMul(Num(1) - w, Last(atr_list))

\* ATRPositionSizer.on_interval for the tickers whose bar closed
sizer_on_interval(atrs, hist, closed) ==
    [t \in Tickers |->
        IF t \in closed /\ calc_atr(atrs[t], hist[t]) # 0
        THEN Append(atrs[t], calc_atr(atrs[t], hist[t]))
        ELSE atrs[t]]

\* the tickers whose base-interval aggregator returns a bar on a heartbeat
closed_bars(lsd) == {t \in Tickers : get_latest_bars(lsd, t) # <<>>}

\* BarManager.on_heartbeat, the bar store after it: the latest base bar of
\* every ticker that has one is appended to that ticker's history
bar_store(hist, lsd) ==
    [t \in Tickers |->
        IF t \in closed_bars(lsd) THEN Append(hist[t], Last(lsd[t])) ELSE hist[t]]

-----------------------------------------------------------------------------
(* BarManager and BarAggregator with any subscriptions.  A key is the pair *)
(* <<ticker, interval>>, interval being the string of the configuration.   *)
(* The dicts aggregators and rtn_slice keep insertion order: they are      *)
(* sequences here.  None is the empty sequence, a value v is <<v>>.        *)

\* util.str_to_seconds; raised stands for the ValueError
str_to_seconds(interval) ==
    CASE interval = "1m" -> [raised |-> FALSE, seconds |-> 60]
      [] interval = "2m" -> [raised |-> FALSE, seconds |-> 120]
      [] interval = "3m" -> [raised |-> FALSE, seconds |-> 180]
      [] interval = "5m" -> [raised |-> FALSE, seconds |-> 300]
      [] interval = "10m" -> [raised |-> FALSE, seconds |-> 600]
      [] interval = "15m" -> [raised |-> FALSE, seconds |-> 900]
      [] interval = "30m" -> [raised |-> FALSE, seconds |-> 1800]
      [] interval \in {"60m", "1h"} -> [raised |-> FALSE, seconds |-> 3600]
      [] interval = "90m" -> [raised |-> FALSE, seconds |-> 5400]
      [] interval = "1d" -> [raised |-> FALSE, seconds |-> 86400]
      [] OTHER -> [raised |-> TRUE, seconds |-> 0]

\* MovingAverageCrossover.__init__: current_positions
NewCurrentPositions == [t \in Tickers |-> 0]

\* BarManager.__init__
NewBarManager(base_interval) ==
    [base_interval |-> base_interval, aggregators |-> <<>>,
     subscribers |-> [k \in {} |-> <<>>], history |-> [k \in {} |-> <<>>]]

\* BarAggregator.__init__
NewBarAggregator(base_interval, interval, ticker) ==
    [base_interval |-> base_interval, interval |-> interval, ticker |-> ticker,
     interval_start_time |-> <<>>, bar |-> <<>>]

\* d[key] of a defaultdict(list)
ListAt(d, key) == IF key \in DOMAIN d THEN d[key] ELSE <<>>

\* d[key] = value of a dict
DictSet(d, key, value) ==
    [k \in DOMAIN d \cup {key} |-> IF k = key THEN value ELSE d[k]]

\* BarManager.subscribe; raised stands for the ValueError of str_to_seconds
subscribe(b, interval, ticker, subscriber) ==
    LET key == <<ticker, interval>>
        known == \E i \in 1..Len(b.aggregators) : b.aggregators[i].key = key
        base == str_to_seconds(b.base_interval)
        secs == str_to_seconds(interval)
        agg == [key |-> key,
                agg |-> NewBarAggregator(base.seconds, secs.seconds, ticker)]
        b1 == IF known THEN b ELSE [b EXCEPT !.aggregators = Append(@, agg)]
    IN IF ~known /\ (base.raised \/ secs.raised)
       THEN [bm |-> b, raised |-> TRUE]
       ELSE [bm |-> [b1 EXCEPT !.subscribers =
                         DictSet(@, key, Append(ListAt(@, key), subscriber))],
             raised |-> FALSE]

\* BarAggregator.on_heartbeat: the aggregator after the call and the bar
\* returned
agg_on_heartbeat(agg, event, lsd) ==
    LET start == IF agg.interval_start_time = <<>> THEN event.timestamp
                 ELSE agg.interval_start_time[1]
        a1 == [agg EXCEPT !.interval_start_time = <<start>>]
        bars == get_latest_bars(lsd, agg.ticker)
        bar == bars[1]
        merged == IF agg.bar # <<>>
                  THEN [agg.bar[1] EXCEPT !.high = Max2(@, bar.high),
                                          !.low = Min2(@, bar.low),
                                          !.close = bar.close,
                                          !.volume = @ + bar.volume]
                  ELSE bar
    IN IF bars = <<>> THEN [agg |-> a1, bar |-> <<>>]
       ELSE IF event.timestamp >= start + agg.interval - agg.base_interval
       THEN [agg |-> [a1 EXCEPT !.bar = <<>>,
                                !.interval_start_time = <<start + agg.interval>>],
             bar |-> <<merged>>]
       ELSE [agg |-> [a1 EXCEPT !.bar = <<merged>>], bar |-> <<>>]

\* the position of subscriber in rtn_slice, 0 if it has no entry yet
SliceIndex(rtn_slice, subscriber) ==
    IF \E i \in 1..Len(rtn_slice) : rtn_slice[i].subscriber = subscriber
    THEN CHOOSE i \in 1..Len(rtn_slice) : rtn_slice[i].subscriber = subscriber
    ELSE 0

\* the collation giving every closed bar an entry of its own
RECURSIVE collate_per_bar(_, _, _, _)
collate_per_bar(rtn_slice, subs, j, key) ==
    IF j > Len(subs) THEN rtn_slice
    ELSE collate_per_bar(Append(rtn_slice, [subscriber |-> subs[j], keys |-> {key}]),
                         subs, j + 1, key)

\* for subscriber in self.subscribers[key]: rtn_slice[subscriber][key] = ...
RECURSIVE collate(_, _, _, _)
collate(rtn_slice, subs, j, key) ==
    IF j > Len(subs) THEN rtn_slice
    ELSE LET i == SliceIndex(rtn_slice, subs[j])
             r == IF i = 0
                  THEN Append(rtn_slice, [subscriber |-> subs[j], keys |-> {key}])
                  ELSE [rtn_slice EXCEPT ![i].keys = @ \cup {key}]
         IN collate(r, subs, j + 1, key)

\* the first loop of BarManager.on_heartbeat over aggregators[i..]; st is
\* [bm, rtn_slice, log], log listing the calls made so far
RECURSIVE aggregate(_, _, _, _)
aggregate(st, event, lsd, i) ==
    IF i > Len(st.bm.aggregators) THEN st
    ELSE LET key == st.bm.aggregators[i].key
             r == agg_on_heartbeat(st.bm.aggregators[i].agg, event, lsd)
             b1 == [st.bm EXCEPT !.aggregators[i].agg = r.agg]
             b2 == [b1 EXCEPT !.history =
                        DictSet(@, key, Append(ListAt(@, key), r.bar[1]))]
             log == Append(st.log, [call |-> "agg.on_heartbeat", key |-> key,
                                    closed |-> r.bar # <<>>])
         IN IF r.bar = <<>>
            THEN aggregate([st EXCEPT !.bm = b1, !.log = log], event, lsd, i + 1)
            ELSE aggregate([bm |-> b2, log |-> log,
                            rtn_slice |-> collate(st.rtn_slice,
                                                  ListAt(b2.subscribers, key), 1, key)],
                           event, lsd, i + 1)

\* the second loop of BarManager.on_heartbeat: one on_interval call per
\* entry of rtn_slice, with the histories of the entry's keys
notify(b, rtn_slice) ==
    [i \in 1..Len(rtn_slice) |->
        [call |-> "on_interval", subscriber |-> rtn_slice[i].subscriber,
         histories |-> [k \in rtn_slice[i].keys |-> b.history[k]]]]

\* BarManager.on_heartbeat: the manager after the call and the calls it
\* made, in order
bm_on_heartbeat(b, event, lsd) ==
    LET st == aggregate([bm |-> b, rtn_slice |-> <<>>, log |-> <<>>], event, lsd, 1)
    IN [bm |-> st.bm, log |-> st.log \o notify(st.bm, st.rtn_slice)]

-----------------------------------------------------------------------------
(* MovingAverageCrossover *)

short_window == 1
long_window == 2

\* the sum of the closes of data[i..Len(data)]
RECURSIVE sum_close(_, _)
sum_close(data, i) ==
    IF i > Len(data) THEN 0 ELSE data[i].close + sum_close(data, i + 1)

\* the branch taken whatever current_positions[ticker] is
crossover_ignoring_position(position, short_avg, long_avg) ==
    IF short_avg < long_avg THEN SHORT
    ELSE IF short_avg > long_avg THEN LONG
    ELSE 0

\* the if/elif of generate_signals: the kind of the signal to put, 0 if none
crossover(position, short_avg, long_avg) ==
    IF short_avg < long_avg /\ position >= 0 THEN SHORT
    ELSE IF short_avg > long_avg /\ position <= 0 THEN LONG
    ELSE 0

\* the loop of MovingAverageCrossover.generate_signals over keys[i..], the
\* keys of histories in the order of the dict; st is [positions, out], out
\* the SignalEvents put so far
RECURSIVE generate_loop(_, _, _, _)
generate_loop(st, histories, keys, i) ==
    IF i > Len(keys) THEN st
    ELSE LET ticker == keys[i]
             hist == histories[ticker]
             n == Len(hist)
             data == SubSeq(hist, n - long_window, n - 1)
             short_avg == FDiv(sum_close(data, long_window - short_window + 1),
                               Num(short_window))
             long_avg == FDiv(sum_close(data, 1), Num(long_window))
             kind == crossover(st.positions[ticker], short_avg, long_avg)
         IN IF hist = <<>> THEN generate_loop(st, histories, keys, i + 1)
            ELSE IF n < long_window + 1 THEN st
            ELSE IF kind = 0 THEN generate_loop(st, histories, keys, i + 1)
            ELSE generate_loop(
                     [positions |-> [st.positions EXCEPT ![ticker] = kind],
                      out |-> Append(st.out, SignalEvent(Last(hist).Index,
                                                         ticker, kind, Num(1)))],
                     histories, keys, i + 1)

\* MovingAverageCrossover.generate_signals (Strategy.on_interval)
generate_signals(positions, histories, keys) ==
    generate_loop([positions |-> positions, out |-> <<>>], histories, keys, 1)

-----------------------------------------------------------------------------
(* SimulatedExecutionHandler *)

\* a MKT fill priced from the bar's close instead of its open
mkt_unit_cost_at_close(order, bar, slippage) ==
    IF order.direction = BUY
    THEN FMul(bar.close, Num(1) + slippage)
    ELSE FMul(bar.close, Num(1) - slippage)

\* the unit cost of a MKT fill
mkt_unit_cost(order, bar, slippage) ==
    IF order.direction = BUY
    THEN FMul(bar.open, Num(1) + slippage)
    ELSE FMul(bar.open, Num(1) - slippage)

\* the FillEvent on_market builds for an order it fills at bar
fill_order(order, bar, mkt_close, slippage) ==
    IF order.order_type = "MOC" /\ mkt_close
    THEN FillEvent(bar.Index, order.ticker, order.quantity, order.direction,
                   FMul(order.quantity, bar.close), bar.close, 0)
    ELSE LET unit_cost == mkt_unit_cost(order, bar, slippage)
         IN FillEvent(bar.Index, order.ticker, order.quantity, order.direction,
                      FMul(order.quantity, unit_cost), unit_cost, slippage)

\* an order stamped at or after the latest bar waits for a later bar; a
\* variant that lets an order stamped exactly at the bar through
stamped_after_bar(order, current_time) == order.timestamp > current_time

not_before_bar(order, current_time) == order.timestamp >= current_time

\* the while loop of SimulatedExecutionHandler.on_market.  st is
\* [queue, out, raised]: the order queue, the fills put on the event channel
\* (each with its order and the slippage returned for it) and whether
\* IndexError was raised.  slip is what calculate_slippage returns for a
\* ticker in this call.
RECURSIVE exec_loop(_, _, _, _, _, _)
exec_loop(st, checked_orders, orders_to_check, mkt_close, lsd, slip) ==
    IF checked_orders >= orders_to_check THEN st
    ELSE LET order == Head(st.queue)
             rest == Tail(st.queue)
             bars == get_latest_bars(lsd, order.ticker)
         IN IF bars = <<>>
            THEN [st EXCEPT !.queue = rest, !.raised = TRUE]
            ELSE LET bar == bars[1]
                     current_time == bar.Index
                 IN IF not_before_bar(order, current_time)
                    THEN [st EXCEPT !.queue = <<order>> \o rest]
                    ELSE IF (order.order_type = "MOC" /\ mkt_close)
                            \/ order.order_type = "MKT"
                    THEN LET s == IF order.order_type = "MKT"
                                  THEN slip[order.ticker] ELSE 0
                             f == fill_order(order, bar, mkt_close, s)
                         IN exec_loop(
                                [st EXCEPT
                                   !.queue = rest,
                                   !.out = Append(@, [fill |-> f, order |-> order,
                                                      s |-> s, bar |-> bar,
                                                      mkt_close |-> mkt_close])],
                                checked_orders + 1, orders_to_check,
                                mkt_close, lsd, slip)
                    ELSE exec_loop([st EXCEPT !.queue = Append(rest, order)],
                                   checked_orders + 1, orders_to_check,
                                   mkt_close, lsd, slip)

\* on_market leaving the order queue as it found it
exec_on_market_keeps_orders(queue, mkt_close, lsd, slip) ==
    [exec_loop([queue |-> queue, out |-> <<>>, raised |-> FALSE],
               0, Len(queue), mkt_close, lsd, slip) EXCEPT !.queue = queue]

\* SimulatedExecutionHandler.on_market
exec_on_market(queue, mkt_close, lsd, slip) ==
    exec_loop([queue |-> queue, out |-> <<>>, raised |-> FALSE],
              0, Len(queue), mkt_close, lsd, slip)

\* SimulatedExecutionHandler.on_order
on_order(queue, event) == Append(queue, event)

\* LiveDataHandler._finalize_and_push_bars, the bars it appends: a ticker
\* in traded gets a bar built from this interval's messages, any other
\* ticker its previous bar with the new Index, or nothing when it has none
finalize_bars(lsd, traded, shape, start_time) ==
    [t \in Tickers |->
        IF t \in traded
        THEN Append(lsd[t], MkBar(start_time, shape[t][1],
                                  Max2(shape[t][1], shape[t][2]),
                                  Min2(shape[t][1], shape[t][2]),
                                  shape[t][2], shape[t][3]))
        ELSE IF lsd[t] # <<>>
        THEN Append(lsd[t], [Last(lsd[t]) EXCEPT !.Index = start_time])
        ELSE lsd[t]]

-----------------------------------------------------------------------------
(* The portfolio driven through its interface: on_interval, on_signal,     *)
(* on_fill and end_of_day in any order, with the position sizer's ATR list *)
(* growing between calls.                                                  *)

MaxSteps == 4
MaxAtr == 1

\* what a new base bar of each ticker can look like (open, close, volume)
CalmBars ==
    [t \in Tickers |-> IF t = "A" THEN <<Num(1), Num(1), Num(40)>>
                                   ELSE <<Num(2), Num(2), Num(40)>>]
GapBars ==
    [t \in Tickers |-> IF t = "A" THEN <<Num(3), Num(3), Num(40)>>
                                   ELSE <<Num(2), Num(1), 0>>]
BarShapes == {CalmBars, GapBars}

NewBar(i, shape) ==
    MkBar(i, shape[1], Max2(shape[1], shape[2]), Min2(shape[1], shape[2]),
          shape[2], shape[3])

\* the fills handed to on_fill: <<ticker, direction, quantity, unit_cost>>
FillInputs ==
    { <<"A", SELL, Num(1), Num(2)>>, <<"A", BUY, Num(1), Num(2)>>,
      <<"A", SELL, Num(4), Num(2)>>, <<"A", BUY, Num(4), Num(2)>>,
      <<"B", SELL, Num(1), Num(1)>>, <<"B", BUY, Num(1), Num(1)>> }
AtrValues == {Milli(10)}
Strengths == {Num(1)}

ZeroCnt == [steps |-> 0, orders |-> 0, ticks |-> 0]

\* the driver before cli.run enters its loop; mode is the data source
\* ("batch": CSV or yfinance, "live": websocket) and exception_contd the
\* command line option.  History of the run, kept beside the program's
\* state: cause[n] is the timestamp of the Market event that triggered the
\* n-th event put (its own for a Market event; the event being handled for a
\* Signal or a Fill; the cause of its Signal for an Order), order_cause[i]
\* the cause of the order with id i, eod_handled the number of Market events
\* with is_eod handled and eod_calls the number of end_of_day calls.
NewDriver(mode, exception_contd) ==
    [pc |-> "outer", mkt_close |-> FALSE, continue_backtest |-> TRUE,
     mode |-> mode, exception_contd |-> exception_contd,
     puts |-> 0, handled |-> <<>>, error |-> "", event |-> <<>>,
     aggregator |-> IF mode = "live" THEN "running" ELSE "none",
     cause |-> <<>>, order_cause |-> <<>>, eod_handled |-> 0, eod_calls |-> 0]

\* the configuration of the portfolio's runs: a gross exposure limit within
\* reach of the initial capital
TightLimits == [DefaultLimits EXCEPT !.MAX_GROSS_EXPOSURE = Num(10)]

PortfolioInit ==
    /\ event_queue = <<>>
    /\ drv = [NewDriver("batch", 0) EXCEPT !.pc = "idle"]
    /\ pf = NewPortfolio
    /\ history = [t \in Tickers |-> <<>>]
    /\ hatr = [t \in Tickers |-> <<>>]
    /\ rm_ts = <<>>
    /\ limits = TightLimits
    /\ bm = NewBarManager("1m")
    /\ current_positions = NewCurrentPositions
    /\ events = <<>>
    /\ order_queue = <<>>
    /\ latest_symbol_data = [t \in Tickers |-> <<>>]
    /\ fills = <<>>
    /\ cnt = ZeroCnt
    /\ last = [op |-> "init"]

Step == cnt' = [cnt EXCEPT !.steps = @ + 1]

\* BarManager hands the portfolio the histories with one more closed bar
PfOnInterval(shape) ==
    /\ cnt.steps < MaxSteps
    /\ LET i == IF history["A"] = <<>> THEN BaseInterval
                ELSE Last(history["A"]).Index + BaseInterval
           h == [t \in Tickers |-> Append(history[t], NewBar(i, shape[t]))]
           p == on_interval(pf, h)
       IN /\ history' = h
          /\ pf' = p
          /\ last' = [op |-> "on_interval", raised |-> on_market_raises(p)]
    /\ Step
    /\ UNCHANGED <<bm, current_positions, limits, hatr, rm_ts, events, execVars, drvVars>>

\* ATRPositionSizer.on_interval stores a new (non-zero) ATR for a ticker
SizerOnInterval(t, atr) ==
    /\ cnt.steps < MaxSteps
    /\ Len(hatr[t]) < MaxAtr
    /\ hatr' = [hatr EXCEPT ![t] = Append(@, atr)]
    /\ last' = [op |-> "sizer", ticker |-> t]
    /\ Step
    /\ UNCHANGED <<bm, current_positions, limits, pf, history, rm_ts, events, execVars, drvVars>>

PfOnSignal(t, kind, strength) ==
    /\ cnt.steps < MaxSteps
    /\ pf.has_history
    /\ LET event == SignalEvent(Last(history[t]).Index, t, kind, strength)
           r == on_signal(pf, event, history, hatr[t], rm_ts,
                          event.timestamp + BaseInterval, cnt.orders + 1)
       IN /\ pf' = r.p
          /\ rm_ts' = r.ts
          /\ events' = events \o r.out
          /\ cnt' = [cnt EXCEPT !.steps = @ + 1, !.orders = @ + Len(r.out)]
          /\ last' = [op |-> "on_signal", event |-> event, raised |-> r.raised,
                      out |-> r.out, built |-> r.built,
                      rejected |-> r.rejected, sized_none |-> r.sized_none,
                      target |-> r.target]
    /\ UNCHANGED <<bm, current_positions, limits, history, hatr, execVars, drvVars>>

PfOnFill(f) ==
    /\ cnt.steps < MaxSteps
    /\ LET event == FillEvent(pf.timestamp, f[1], f[3], f[2],
                              FMul(f[3], f[4]), f[4], 0)
       IN /\ pf' = on_fill(pf, event)
          /\ last' = [op |-> "on_fill", event |-> event,
                      margin_before |-> pf.margin_holdings[f[1]]]
    /\ Step
    /\ UNCHANGED <<bm, current_positions, limits, history, hatr, rm_ts, events, execVars, drvVars>>

PfEndOfDay ==
    /\ cnt.steps < MaxSteps
    /\ pf.has_history
    /\ pf' = end_of_day(pf, history)
    /\ last' = [op |-> "end_of_day", margin_before |-> pf.margin_holdings]
    /\ Step
    /\ UNCHANGED <<bm, current_positions, limits, history, hatr, rm_ts, events, execVars, drvVars>>

\* the fills of a round trip at one price: <<ticker, direction, quantity,
\* unit_cost>>, each with commission 0 and slippage 0
AtCostFillInputs ==
    { <<"A", SELL, Num(1), Num(2)>>, <<"A", BUY, Num(1), Num(2)>> }

\* cash, total and the ticker's position and margin as on_fill finds them
Books(p, t) ==
    [cash |-> p.cash, total |-> p.total, position |-> p.position[t],
     margin |-> p.margin_holdings[t]]

\* on_fill with a fill that carries commission 0; last remembers the
\* books before this fill and, if the previous call was such a fill too,
\* that fill and the books before it
PfOnFillAtCost(f) ==
    /\ cnt.steps < MaxSteps
    /\ LET event == FillEventWithCommission(pf.timestamp, f[1], f[3], f[2],
                                             FMul(f[3], f[4]), f[4], 0)
       IN /\ pf' = on_fill(pf, event)
          /\ last' = [op |-> "on_fill", event |-> event,
                      margin_before |-> pf.margin_holdings[f[1]],
                      pre |-> Books(pf, f[1]),
                      prev |-> IF last.op = "on_fill" /\ "pre" \in DOMAIN last
                               THEN <<[event |-> last.event, pre |-> last.pre]>>
                               ELSE <<>>]
    /\ Step
    /\ UNCHANGED <<bm, current_positions, limits, history, hatr, rm_ts, events, execVars, drvVars>>

\* liquidate, once the portfolio has bars to close its positions at
PfLiquidate ==
    /\ cnt.steps < MaxSteps
    /\ pf.has_history
    /\ pf' = liquidate(pf, history)
    /\ last' = [op |-> "liquidate", position_before |-> pf.position,
                margin_before |-> pf.margin_holdings]
    /\ Step
    /\ UNCHANGED <<bm, current_positions, limits, history, hatr, rm_ts, events, execVars, drvVars>>

PortfolioNext ==
    \/ \E shape \in BarShapes : PfOnInterval(shape)
    \/ \E t \in Tickers, atr \in AtrValues : SizerOnInterval(t, atr)
    \/ \E t \in Tickers, kind \in SignalTypes, strength \in Strengths :
          PfOnSignal(t, kind, strength)
    \/ \E f \in FillInputs : PfOnFill(f)
    \/ \E f \in AtCostFillInputs : PfOnFillAtCost(f)
    \/ PfEndOfDay
    \/ PfLiquidate

SpecPortfolio == PortfolioInit /\ [][PortfolioNext]_vars

\* C1: at the end of every on_interval call and of every end_of_day call,
\* total = cash + the sum of the tickers' values + the sum of the margin
\* book, whatever on_interval, on_fill and end_of_day calls came before.
TotalIsCashValueMargin ==
    last.op \in {"on_interval", "end_of_day"} =>
        pf.total = pf.cash + SumOver(pf.value, Tickers)
                           + SumOver(pf.margin_holdings, Tickers)

\* an end_of_day that revalued a short position whose margin is frozen
\* while another ticker is held long
EndOfDayWithShortAndLong ==
    /\ last.op = "end_of_day"
    /\ \E t, u \in Tickers :
          /\ pf.position[t] < 0 /\ pf.margin_holdings[t] > 0
          /\ pf.position[u] > 0 /\ pf.value[u] > 0

\* C2: in every state every ticker's held margin is >= 0 and is > 0 only
\* while the position is short, and a fill that leaves its ticker flat or
\* long returns all of that ticker's held margin to cash.
MarginOnlyWhileShort ==
    \A t \in Tickers :
        /\ pf.margin_holdings[t] >= 0
        /\ pf.margin_holdings[t] > 0 => pf.position[t] < 0

FillReturnsMargin ==
    \A t \in Tickers :
        (last'.op = "on_fill" /\ last'.event.ticker = t /\ pf'.position[t] >= 0) =>
            /\ pf'.margin_holdings[t] = 0
            /\ pf'.cash = pf.cash + pf.margin_holdings[t]
                          - last'.event.direction * last'.event.fill_cost
                          - last'.event.commission

MarginBook == []MarginOnlyWhileShort /\ [][FillReturnsMargin]_vars

\* a fill has just closed a short position whose margin was frozen
FillClosedShort ==
    /\ last.op = "on_fill"
    /\ last.margin_before > 0
    /\ pf.position[last.event.ticker] >= 0

\* C3: every Order event that on_signal pushed has quantity >= 0.
OrderQuantitiesNonNegative ==
    \A i \in 1..Len(events) : events[i].quantity >= 0

\* C13: an on_signal call whose order the risk manager rejects pushes no
\* Order event and leaves cash, positions, values, margins and total of the
\* portfolio as they were.
RejectedSignalStep ==
    (last'.op = "on_signal" /\ last'.rejected) =>
        /\ last'.out = <<>>
        /\ events' = events
        /\ Holdings(pf') = Holdings(pf)
        /\ pf'.margin_holdings = pf.margin_holdings

RejectedOrderLeavesNoTrace == [][RejectedSignalStep]_vars

\* an order of positive quantity, built while the portfolio holds a
\* position and has cash, was rejected for its projected gross exposure
RejectedForGrossExposure ==
    /\ last.op = "on_signal"
    /\ last.rejected
    /\ last.built[1].quantity > 0
    /\ pf.cash > 0
    /\ \E t \in Tickers : pf.position[t] # 0
    /\ ~gross_exposure_check(last.built[1], pf,
                             Last(history[last.event.ticker]).close)

\* C16: get_position_size returns None when no ATR is stored for the
\* ticker or the last stored ATR is 0; on_signal then uses the last target
\* quantity stored for the ticker, which is initial_position_size while no
\* signal for that ticker was sized by the sizer, and an order opening a
\* position from flat has that quantity, clamped to what is affordable.
NoUsableAtr == {<<>>, <<0>>, <<Milli(10), 0>>}

FallbackSignalStep ==
    (last'.op = "on_signal" /\ last'.sized_none) =>
        LET t == last'.event.ticker
        IN /\ last'.target = pf.position_dict[t]
           /\ pf'.position_dict = pf.position_dict
           /\ (pf.position[t] = 0 /\ last'.built # <<>>) =>
                 last'.built[1].quantity =
                    Min2(FMul(pf.position_dict[t], last'.event.strength),
                         max_affordable_qty(last'.built[1].direction, pf.cash,
                                            Last(history[t]).close))

SizerFallback ==
    /\ [](\A atr_list \in NoUsableAtr, rounding \in {0, 1} :
             get_position_size(atr_list, pf.total, rounding).none)
    /\ [](\A t \in Tickers :
             hatr[t] = <<>> => pf.position_dict[t] = initial_position_size)
    /\ [][FallbackSignalStep]_vars

\* a second signal for a ticker without ATR was sized with
\* initial_position_size and its order was pushed
FallbackOrderPushed ==
    /\ last.op = "on_signal"
    /\ last.sized_none
    /\ last.target = initial_position_size
    /\ cnt.orders >= 2
    /\ last.out # <<>>
    /\ last.out[1].quantity = initial_position_size

\* C17: a ticker's position is the sum of direction*quantity over the
\* fills applied by on_fill: it starts at 0, every on_fill adds
\* direction*quantity to its ticker's position, and on_interval, on_signal
\* and end_of_day change no position (liquidate, which ends a run, is not
\* covered).
PositionStep ==
    last'.op # "liquidate" =>
        \A t \in Tickers :
            pf'.position[t] =
                pf.position[t]
                + (IF last'.op = "on_fill" /\ last'.event.ticker = t
                   THEN last'.event.direction * last'.event.quantity ELSE 0)

PositionIsSumOfFills ==
    /\ \A t \in Tickers : pf.position[t] = 0
    /\ [][PositionStep]_vars

\* after a sale of 4 and a purchase of 1 the end of the day finds A short 3
ShortThreeAtEndOfDay ==
    /\ last.op = "end_of_day"
    /\ pf.position["A"] = -Num(3)

\* C18: with zero commission and zero slippage, a fill of quantity q at
\* price p that opens a position from flat, followed by the opposite fill
\* of q at p, leaves cash, the ticker's held margin and total as they were
\* before the first fill, for BUY then SELL and for SELL then BUY.
RoundTripAtCost ==
    (/\ last.op = "on_fill" /\ "prev" \in DOMAIN last
     /\ last.prev # <<>>
     /\ last.prev[1].pre.position = 0
     /\ last.event.commission = 0 /\ last.prev[1].event.commission = 0
     /\ last.event.ticker = last.prev[1].event.ticker
     /\ last.event.direction = -last.prev[1].event.direction
     /\ last.event.quantity = last.prev[1].event.quantity
     /\ last.event.unit_cost = last.prev[1].event.unit_cost)
    => /\ pf.cash = last.prev[1].pre.cash
       /\ pf.total = last.prev[1].pre.total
       /\ pf.margin_holdings[last.event.ticker] = last.prev[1].pre.margin
       /\ pf.position[last.event.ticker] = 0

\* a portfolio that had traded before completed a short round trip: SELL
\* froze margin, BUY released it
ShortRoundTripDone ==
    /\ last.op = "on_fill" /\ "prev" \in DOMAIN last
    /\ last.prev # <<>>
    /\ last.prev[1].pre.position = 0
    /\ last.prev[1].event.direction = SELL
    /\ last.event.direction = BUY
    /\ last.margin_before > 0
    /\ pf.cash # initial_capital

\* C19: after liquidate every ticker has position 0, value 0 and held
\* margin 0, total = cash, cash = the cash before + the margin released
\* from the short tickers + the sum over the tickers of position * last
\* close, and historical_holdings has exactly one more snapshot.
LiquidateStep ==
    last'.op = "liquidate" =>
        LET released == [t \in Tickers |->
                            IF pf.position[t] < 0 THEN pf.margin_holdings[t]
                            ELSE 0]
            proceeds == [t \in Tickers |->
                            FMul(pf.position[t], Last(history[t]).close)]
        IN /\ \A t \in Tickers :
                 /\ pf'.position[t] = 0
                 /\ pf'.value[t] = 0
                 /\ pf'.margin_holdings[t] = 0
                 /\ pf'.margin[t] = 0
           /\ pf'.total = pf'.cash
           /\ pf'.cash = pf.cash + SumOver(released, Tickers)
                                 + SumOver(proceeds, Tickers)
           /\ NumSnapshots(pf') = NumSnapshots(pf) + 1

LiquidateClosesEverything == [][LiquidateStep]_vars

\* liquidate closed a short position with frozen margin and a long one
LiquidatedShortAndLong ==
    /\ last.op = "liquidate"
    /\ \E t, u \in Tickers :
          /\ last.position_before[t] < 0 /\ last.margin_before[t] > 0
          /\ last.position_before[u] > 0

\* C20: after end_of_day every ticker is valued at position * last close;
\* a short ticker holds margin |value| * (1 + maintenance_margin), a
\* ticker that is flat or long holds none; cash has paid the margin
\* increases and the borrow costs |value| * daily_borrow_rate of the short
\* tickers and received the margin of the others, and the borrow costs
\* have been added to borrow_costs.
EndOfDayStep ==
    last'.op = "end_of_day" =>
        LET value == [t \in Tickers |->
                         FMul(pf.position[t], Last(history[t]).close)]
            borrow == [t \in Tickers |->
                          IF pf.position[t] < 0
                          THEN FMul(Abs(value[t]), daily_borrow_rate) ELSE 0]
            margin == [t \in Tickers |->
                          IF pf.position[t] < 0
                          THEN FMul(Abs(value[t]), Num(1) + maintenance_margin)
                          ELSE 0]
        IN /\ pf'.value = value
           /\ pf'.margin_holdings = margin
           /\ pf'.position = pf.position
           /\ pf'.cash = pf.cash + SumOver(pf.margin_holdings, Tickers)
                                 - SumOver(margin, Tickers)
                                 - SumOver(borrow, Tickers)
           /\ pf'.borrow_costs = pf.borrow_costs + SumOver(borrow, Tickers)

EndOfDayMarginAndBorrow == [][EndOfDayStep]_vars

\* end_of_day changed the margin of a short ticker whose price had moved
\* since its fill, charged borrow cost, and released nothing for a long one
EndOfDayMovedMargin ==
    /\ last.op = "end_of_day"
    /\ pf.borrow_costs > 0
    /\ \E t, u \in Tickers :
          /\ pf.position[t] < 0
          /\ last.margin_before[t] > 0
          /\ last.margin_before[t] # pf.margin_holdings[t]
          /\ pf.position[u] > 0

\* C34: the holdings snapshots satisfy total = cash + the sum of the values
\* + the sum of the snapshot's own margin field: after every on_fill,
\* end_of_day and on_interval the margin field of the current snapshot equals
\* the margin book for every ticker.
SnapshotMarginIsMarginBook ==
    last.op \in {"on_fill", "end_of_day", "on_interval"} =>
        /\ \A t \in Tickers : pf.margin[t] = pf.margin_holdings[t]
        /\ pf.total = pf.cash + SumOver(pf.value, Tickers)
                              + SumOver(pf.margin, Tickers)

-----------------------------------------------------------------------------
(* The execution handler driven through its interface: on_order and        *)
(* on_market in any order, while the data handler appends bars.            *)

MaxExecSteps == 5
MaxOrders == 2
SlippageValues == {0, Milli(100)}

\* the orders handed to on_order: <<direction, ticker, order_type, how far
\* after the latest bar the order is stamped>>, each of quantity 2
OrderInputs ==
    { <<BUY, "A", "MKT", 0>>, <<SELL, "A", "MKT", 0>>, <<BUY, "A", "MOC", 0>>,
      <<BUY, "B", "MOC", 0>>, <<SELL, "B", "MKT", 0>>,
      <<BUY, "A", "MKT", BaseInterval>>, <<SELL, "A", "MOC", BaseInterval>> }

\* the tickers that traded in an interval
TradedSets == {Tickers, {"A"}}

Clock == cnt.ticks * BaseInterval

ExecInit == PortfolioInit

\* the data handler appends the bars of the next interval
ExNewBars(traded, shape) ==
    /\ cnt.steps < MaxExecSteps
    /\ latest_symbol_data' =
           finalize_bars(latest_symbol_data, traded, shape, Clock + BaseInterval)
    /\ cnt' = [cnt EXCEPT !.steps = @ + 1, !.ticks = @ + 1]
    /\ last' = [op |-> "new_bars"]
    /\ UNCHANGED <<bm, current_positions, limits, pf, history, hatr, rm_ts, events, order_queue, fills, drvVars>>

\* on_order with a new order, stamped with the latest bar's time or later
ExOnOrder(o) ==
    /\ cnt.steps < MaxExecSteps
    /\ cnt.orders < MaxOrders
    /\ LET event == OrderEvent(cnt.orders + 1, o[1], o[2], o[3], Num(2),
                               Clock + o[4])
       IN /\ order_queue' = on_order(order_queue, event)
          /\ last' = [op |-> "on_order", event |-> event]
    /\ cnt' = [cnt EXCEPT !.steps = @ + 1, !.orders = @ + 1]
    /\ UNCHANGED <<bm, current_positions, limits, pf, history, hatr, rm_ts, events, latest_symbol_data, fills,
                   drvVars>>

\* on_market; slip is what the slippage model returns in this call
ExOnMarket(mkt_close, s) ==
    /\ cnt.steps < MaxExecSteps
    /\ LET r == exec_on_market(order_queue, mkt_close, latest_symbol_data,
                               [t \in Tickers |-> s])
       IN /\ order_queue' = r.queue
          /\ events' = events \o [i \in 1..Len(r.out) |-> r.out[i].fill]
          /\ fills' = fills \o r.out
          /\ last' = [op |-> "on_market", mkt_close |-> mkt_close, s |-> s,
                      before |-> order_queue, out |-> r.out,
                      raised |-> r.raised]
    /\ cnt' = [cnt EXCEPT !.steps = @ + 1]
    /\ UNCHANGED <<bm, current_positions, limits, pf, history, hatr, rm_ts, latest_symbol_data, drvVars>>

ExecNext ==
    \/ \E traded \in TradedSets, shape \in BarShapes : ExNewBars(traded, shape)
    \/ \E o \in OrderInputs : ExOnOrder(o)
    \/ \E mkt_close \in BOOLEAN, s \in SlippageValues : ExOnMarket(mkt_close, s)

SpecExec == ExecInit /\ [][ExecNext]_vars

\* the orders of a sequence of orders, and whether order o is among them
Queued(o, queue) == \E i \in 1..Len(queue) : queue[i].id = o.id

\* the fills that the on_market call just made produced for order o
FillsFor(o) == {k \in 1..Len(last.out) : last.out[k].order.id = o.id}

\* the latest bar of a ticker
LatestBar(t) == Last(latest_symbol_data[t])

\* C4: every Fill is stamped strictly later than its order, and an order
\* stamped at or after the latest bar of its ticker gets no Fill in an
\* on_market call and is still in the order queue after it.
FillsAfterOrderTime ==
    /\ \A i \in 1..Len(fills) : fills[i].fill.timestamp > fills[i].order.timestamp
    /\ last.op = "on_market" =>
          \A i \in 1..Len(last.before) :
             LET o == last.before[i]
             IN (/\ latest_symbol_data[o.ticker] # <<>>
                 /\ o.timestamp >= LatestBar(o.ticker).Index)
                => FillsFor(o) = {} /\ Queued(o, order_queue)

\* an on_market call filled one order and kept back one stamped at the bar
FilledOneDeferredOne ==
    /\ last.op = "on_market"
    /\ last.out # <<>>
    /\ \E i \in 1..Len(last.before) :
          LET o == last.before[i]
          IN /\ latest_symbol_data[o.ticker] # <<>>
             /\ o.timestamp >= LatestBar(o.ticker).Index
             /\ Queued(o, order_queue)

\* C5: a MOC order is filled only by an on_market call with mkt_close
\* true, at unit_cost = bar.close with slippage 0; an on_market call with
\* mkt_close false produces no Fill for it and leaves it in the order queue.
MocOnlyAtClose ==
    /\ \A i \in 1..Len(fills) :
          fills[i].order.order_type = "MOC" =>
             /\ fills[i].mkt_close
             /\ fills[i].fill.unit_cost = fills[i].bar.close
             /\ fills[i].fill.slippage = 0
    /\ (last.op = "on_market" /\ ~last.mkt_close) =>
          \A i \in 1..Len(last.before) :
             last.before[i].order_type = "MOC" =>
                /\ FillsFor(last.before[i]) = {}
                /\ Queued(last.before[i], order_queue)

\* C6: each Fill carries the ticker, direction and whole quantity of one
\* order that was queued, that order is gone from the queue, and no order
\* has two Fills.
OneFillPerOrder ==
    /\ \A i \in 1..Len(fills) :
          /\ fills[i].fill.ticker = fills[i].order.ticker
          /\ fills[i].fill.direction = fills[i].order.direction
          /\ fills[i].fill.quantity = fills[i].order.quantity
          /\ ~Queued(fills[i].order, order_queue)
          /\ \A j \in 1..Len(fills) : fills[j].order.id = fills[i].order.id => j = i
    /\ last.op = "on_market" =>
          \A k \in 1..Len(last.out) : Queued(last.out[k].order, last.before)

\* two orders were filled by two different on_market calls
FilledInTwoCalls ==
    /\ last.op = "on_market"
    /\ Len(last.out) = 1
    /\ Len(fills) = 2

\* C7: a MKT order is filled at bar.open*(1 + s) for BUY and bar.open*(1 - s)
\* for SELL, bar being the latest bar of its ticker and s the slippage the
\* model returned; fill_cost = quantity*unit_cost and the Fill's slippage is s.
MktFillPrice ==
    last.op = "on_market" =>
       \A k \in 1..Len(last.out) :
          LET o == last.out[k].order
              f == last.out[k].fill
              bar == LatestBar(o.ticker)
          IN o.order_type = "MKT" =>
                /\ f.unit_cost = FMul(bar.open, Num(1) + o.direction * last.s)
                /\ f.fill_cost = FMul(o.quantity, f.unit_cost)
                /\ f.slippage = last.s

\* a MKT SELL was filled with non-zero slippage at a bar whose open and
\* close differ
MktSellFilledWithSlippage ==
    /\ last.op = "on_market"
    /\ last.s > 0
    /\ \E k \in 1..Len(last.out) :
          /\ last.out[k].order.order_type = "MKT"
          /\ last.out[k].order.direction = SELL
          /\ LatestBar(last.out[k].order.ticker).open
                # LatestBar(last.out[k].order.ticker).close

\* order o can be filled by the on_market call just made: the latest bar of
\* its ticker is strictly later than the order and the order is MKT, or MOC
\* at the market close
Eligible(o) ==
    /\ latest_symbol_data[o.ticker] # <<>>
    /\ LatestBar(o.ticker).Index > o.timestamp
    /\ o.order_type = "MKT" \/ (o.order_type = "MOC" /\ last.mkt_close)

\* C36: in an on_market call, every order queued at the start of the call
\* and eligible is filled in that call, whatever other orders are queued
\* before it.
EligibleOrdersFilled ==
    last.op = "on_market" =>
        \A i \in 1..Len(last.before) :
            Eligible(last.before[i]) => FillsFor(last.before[i]) # {}

-----------------------------------------------------------------------------
(* The driver loop of cli.run with every component wired in, fed by a      *)
(* batch data source (update_bars called by the loop) or by the live data  *)
(* source, whose aggregator thread runs concurrently with the loop.        *)
(* The strategy is any strategy: on a heartbeat it puts no signal or one,   *)
(* stamped like the shipped strategies with the Index of the newest bar of *)
(* its history.                                                            *)
(* The data alternate between calm bars and bars that gap up; a run may    *)
(* end after any number of them.                                           *)

MaxTicks == 3
DayBars == 2

\* the bar of interval number i closes the trading day
IsEod(i) == i % DayBars = 0

\* the kinds of the signals the strategy emits on a heartbeat: none or one
StrategyChoices == {<<>>} \cup {<<kind>> : kind \in SignalTypes}

\* the SignalEvents the strategy puts on a heartbeat stamped ts
strategy_signals(choice, ts) ==
    [i \in 1..Len(choice) |-> SignalEvent(ts, "A", choice[i], Num(1))]

\* queue.Queue.put of a sequence of events, one after the other
RECURSIVE put_all(_, _, _)
put_all(q, evs, n) ==
    IF evs = <<>> THEN q
    ELSE put_all(Append(q, [seq |-> n + 1, ev |-> Head(evs)]), Tail(evs), n + 1)

\* queue.Queue.get taking the newest entry instead of the oldest
queue_get_newest(q) == [entry |-> Last(q), rest |-> SubSeq(q, 1, Len(q) - 1)]

\* queue.Queue.get(block=False) on a non-empty queue
queue_get(q) == [entry |-> Head(q), rest |-> Tail(q)]

DriverInit ==
    /\ pf = NewPortfolio
    /\ history = [t \in Tickers |-> <<>>]
    /\ hatr = [t \in Tickers |-> <<>>]
    /\ rm_ts = <<>>
    /\ limits = DefaultLimits
    /\ bm = NewBarManager("1m")
    /\ current_positions = NewCurrentPositions
    /\ events = <<>>
    /\ order_queue = <<>>
    /\ latest_symbol_data = [t \in Tickers |-> <<>>]
    /\ fills = <<>>
    /\ event_queue = <<>>
    /\ \E mode \in {"batch", "live"}, exception_contd \in {0, 1} :
          drv = NewDriver(mode, exception_contd)
    /\ cnt = ZeroCnt
    /\ last = [op |-> "init"]

\* the data of a run: the bars of interval number i
DataBars(i) == IF i % 2 = 1 THEN CalmBars ELSE GapBars

\* the next MarketEvent's bars are appended and the event is put
PushBars ==
    /\ latest_symbol_data' =
           finalize_bars(latest_symbol_data, Tickers, DataBars(cnt.ticks + 1),
                         Clock + BaseInterval)
    /\ event_queue' =
           put_all(event_queue,
                   <<MarketEvent(Clock + BaseInterval, IsEod(cnt.ticks + 1))>>,
                   drv.puts)
    /\ cnt' = [cnt EXCEPT !.ticks = @ + 1]

LoopCondition == drv.continue_backtest \/ event_queue # <<>>

\* while ...: data_handler.update_bars() of a batch data source with a bar left
DrvUpdateBars ==
    /\ drv.pc = "outer" /\ drv.mode = "batch" /\ LoopCondition
    /\ drv.continue_backtest
    /\ cnt.ticks < MaxTicks
    /\ PushBars
    /\ drv' = [drv EXCEPT !.pc = "inner", !.puts = @ + 1,
                           !.cause = Append(@, Clock + BaseInterval)]
    /\ last' = [op |-> "update_bars"]
    /\ UNCHANGED <<bm, current_positions, limits, pf, history, hatr, rm_ts, events, order_queue, fills>>

\* while ...: data_handler.update_bars() of a batch data source that is
\* exhausted (StopIteration)
DrvDataExhausted ==
    /\ drv.pc = "outer" /\ drv.mode = "batch" /\ LoopCondition
    /\ drv' = [drv EXCEPT !.pc = "inner", !.continue_backtest = FALSE]
    /\ last' = [op |-> "exhausted"]
    /\ UNCHANGED <<bm, current_positions, limits, pf, history, hatr, rm_ts, events, execVars, event_queue, cnt>>

\* while ...: data_handler.update_bars() of the live data source (a stub)
DrvLivePoll ==
    /\ drv.pc = "outer" /\ drv.mode = "live" /\ LoopCondition
    /\ drv' = [drv EXCEPT !.pc = "inner"]
    /\ last' = [op |-> "poll"]
    /\ UNCHANGED <<bm, current_positions, limits, pf, history, hatr, rm_ts, events, execVars, event_queue, cnt>>

\* the while condition is false: the loop is left
DrvExit ==
    /\ drv.pc = "outer" /\ ~LoopCondition
    /\ drv' = [drv EXCEPT !.pc = "done"]
    /\ last' = [op |-> "exit"]
    /\ UNCHANGED <<bm, current_positions, limits, pf, history, hatr, rm_ts, events, execVars, event_queue, cnt>>

\* the inner loop finds the queue empty; end_of_day if mkt_close is set
DrvDrained ==
    /\ drv.pc = "inner" /\ event_queue = <<>>
    /\ pf' = IF drv.mkt_close THEN end_of_day(pf, history) ELSE pf
    /\ drv' = [drv EXCEPT !.pc = "outer", !.mkt_close = FALSE,
                           !.eod_calls = IF drv.mkt_close THEN @ + 1 ELSE @]
    /\ last' = [op |-> "drained", end_of_day |-> drv.mkt_close]
    /\ UNCHANGED <<bm, current_positions, limits, history, hatr, rm_ts, events, execVars, event_queue, cnt>>

\* a MARKET event is taken: bar_manager.on_heartbeat notifies the sizer,
\* the strategy, the slippage model and the portfolio, in this order; an
\* exception of Portfolio.on_interval leaves cli.run
DrvHeartbeat(choice) ==
    /\ drv.pc = "inner" /\ event_queue # <<>>
    /\ LET g == queue_get(event_queue)
           event == g.entry.ev
           h == bar_store(history, latest_symbol_data)
           signals == strategy_signals(choice, Last(h["A"]).Index)
           p == on_interval(pf, h)
       IN /\ event.type = "MARKET"
          /\ closed_bars(latest_symbol_data) = Tickers
          /\ history' = h
          /\ hatr' = sizer_on_interval(hatr, h, Tickers)
          /\ event_queue' = put_all(g.rest, signals, drv.puts)
          /\ pf' = p
          /\ drv' = [drv EXCEPT
                       !.handled = Append(@, g.entry.seq),
                       !.puts = @ + Len(signals),
                       !.cause = @ \o [i \in 1..Len(signals) |-> event.timestamp],
                       !.eod_handled = IF event.is_eod THEN @ + 1 ELSE @,
                       !.event = event,
                       !.pc = IF on_market_raises(p) THEN "aborted" ELSE "market",
                       !.error = IF on_market_raises(p) THEN "NegativeCash" ELSE @]
          /\ last' = [op |-> "heartbeat", raised |-> on_market_raises(p)]
    /\ UNCHANGED <<bm, current_positions, limits, rm_ts, events, execVars, cnt>>

\* the rest of the MARKET branch: mkt_close = event.is_eod and
\* execution_handler.on_market, whose slippage model returns 0
DrvExecOnMarket ==
    /\ drv.pc = "market"
    /\ LET r == exec_on_market(order_queue, drv.event.is_eod, latest_symbol_data,
                               [t \in Tickers |-> 0])
           out == [i \in 1..Len(r.out) |-> r.out[i].fill]
       IN /\ order_queue' = r.queue
          /\ fills' = fills \o [i \in 1..Len(r.out) |->
                                   [fill |-> r.out[i].fill, order |-> r.out[i].order,
                                    s |-> r.out[i].s, bar |-> r.out[i].bar,
                                    mkt_close |-> r.out[i].mkt_close,
                                    market |-> drv.event.timestamp]]
          /\ event_queue' = put_all(event_queue, out, drv.puts)
          /\ drv' = [drv EXCEPT
                       !.mkt_close = drv.event.is_eod,
                       !.puts = @ + Len(out),
                       !.cause = @ \o [i \in 1..Len(out) |-> drv.event.timestamp],
                       !.pc = IF r.raised THEN "aborted" ELSE "inner",
                       !.error = IF r.raised THEN "IndexError" ELSE @]
          /\ last' = [op |-> "on_market", mkt_close |-> drv.event.is_eod, s |-> 0,
                      before |-> order_queue, out |-> r.out, raised |-> r.raised]
    /\ UNCHANGED <<bm, current_positions, limits, pf, history, hatr, rm_ts, events, latest_symbol_data, cnt>>

\* a SIGNAL event is taken: portfolio.on_signal
DrvSignal ==
    /\ drv.pc = "inner" /\ event_queue # <<>>
    /\ LET g == queue_get(event_queue)
           event == g.entry.ev
           r == on_signal(pf, event, history, hatr[event.ticker], rm_ts,
                          event.timestamp + BaseInterval, cnt.orders + 1)
       IN /\ event.type = "SIGNAL"
          /\ pf' = r.p
          /\ rm_ts' = r.ts
          /\ event_queue' = put_all(g.rest, r.out, drv.puts)
          /\ cnt' = [cnt EXCEPT !.orders = @ + Len(r.out)]
          /\ drv' = [drv EXCEPT
                       !.handled = Append(@, g.entry.seq),
                       !.puts = @ + Len(r.out),
                       !.cause = @ \o [i \in 1..Len(r.out) |-> drv.cause[g.entry.seq]],
                       !.order_cause =
                           @ \o [i \in 1..Len(r.out) |-> drv.cause[g.entry.seq]],
                       !.pc = IF r.raised THEN "aborted" ELSE @,
                       !.error = IF r.raised THEN "AttributeError" ELSE @]
          /\ last' = [op |-> "on_signal", event |-> event, raised |-> r.raised,
                      out |-> r.out, built |-> r.built,
                      rejected |-> r.rejected, sized_none |-> r.sized_none,
                      target |-> r.target]
    /\ UNCHANGED <<bm, current_positions, limits, history, hatr, events, execVars>>

\* an ORDER event is taken: execution_handler.on_order
DrvOrder ==
    /\ drv.pc = "inner" /\ event_queue # <<>>
    /\ LET g == queue_get(event_queue)
       IN /\ g.entry.ev.type = "ORDER"
          /\ order_queue' = on_order(order_queue, g.entry.ev)
          /\ event_queue' = g.rest
          /\ drv' = [drv EXCEPT !.handled = Append(@, g.entry.seq)]
          /\ last' = [op |-> "on_order", event |-> g.entry.ev]
    /\ UNCHANGED <<bm, current_positions, limits, pf, history, hatr, rm_ts, events, latest_symbol_data, fills, cnt>>

\* a FILL event is taken: portfolio.on_fill
DrvFill ==
    /\ drv.pc = "inner" /\ event_queue # <<>>
    /\ LET g == queue_get(event_queue)
       IN /\ g.entry.ev.type = "FILL"
          /\ pf' = on_fill(pf, g.entry.ev)
          /\ event_queue' = g.rest
          /\ drv' = [drv EXCEPT !.handled = Append(@, g.entry.seq)]
          /\ last' = [op |-> "on_fill", event |-> g.entry.ev,
                      margin_before |-> pf.margin_holdings[g.entry.ev.ticker]]
    /\ UNCHANGED <<bm, current_positions, limits, history, hatr, rm_ts, events, execVars, cnt>>

\* the aggregator thread ends an interval: _finalize_and_push_bars.  The
\* thread is a daemon: it ends with the process when cli.run is left by an
\* exception.
AggPush ==
    /\ drv.aggregator = "running" /\ drv.pc # "aborted"
    /\ cnt.ticks < MaxTicks
    /\ PushBars
    /\ drv' = [drv EXCEPT !.puts = @ + 1,
                           !.cause = Append(@, Clock + BaseInterval)]
    /\ last' = [op |-> "push"]
    /\ UNCHANGED <<bm, current_positions, limits, pf, history, hatr, rm_ts, events, order_queue, fills>>

\* the aggregator thread leaves its loop: continue_backtest = False
AggStop ==
    /\ drv.aggregator = "running" /\ drv.pc # "aborted"
    /\ drv' = [drv EXCEPT !.aggregator = "stopped", !.continue_backtest = FALSE]
    /\ last' = [op |-> "stop"]
    /\ UNCHANGED <<bm, current_positions, limits, pf, history, hatr, rm_ts, events, execVars, event_queue, cnt>>

DriverNext ==
    \/ DrvUpdateBars
    \/ DrvDataExhausted
    \/ DrvLivePoll
    \/ DrvExit
    \/ DrvDrained
    \/ \E choice \in StrategyChoices : DrvHeartbeat(choice)
    \/ DrvExecOnMarket
    \/ DrvSignal
    \/ DrvOrder
    \/ DrvFill
    \/ AggPush
    \/ AggStop

SpecDriver == DriverInit /\ [][DriverNext]_vars

\* C8: the driver handles the events in the order in which they were put
\* on the channel: the i-th event handled is the i-th event put.
HandledInPutOrder ==
    \A i \in 1..Len(drv.handled) : drv.handled[i] = i

\* in a live run several events have been handled and a Fill that a
\* handler put is waiting behind a Market event of the aggregator thread
FillBehindMarket ==
    /\ drv.mode = "live"
    /\ Len(drv.handled) >= 4
    /\ \E i, j \in 1..Len(event_queue) :
          /\ i < j
          /\ event_queue[i].ev.type = "MARKET"
          /\ event_queue[j].ev.type = "FILL"

\* C9: once the data source has stopped and the driver loop has ended, the
\* event channel is empty: every event put has been handled.
ChannelEmptyAtTermination ==
    (~drv.continue_backtest /\ drv.pc \in {"done", "aborted"}) =>
        event_queue = <<>>

\* C10: when Portfolio.on_interval raises NegativeCash, the run goes on if
\* exception_contd = 1 and aborts if exception_contd = 0.
NegativeCashPerOption ==
    (last.op = "heartbeat" /\ last.raised) =>
        IF drv.exception_contd = 1 THEN drv.pc # "aborted"
        ELSE drv.pc = "aborted"

\* C28: for every (ticker, interval), the bars in the bar store's history
\* have strictly increasing index, in batch mode and in live mode under
\* every interleaving of the aggregator thread with the driver.
HistoryStrictlyIncreasing ==
    \A t \in Tickers : \A i \in 1..(Len(history[t]) - 1) :
        history[t][i].Index < history[t][i + 1].Index

\* C31: an order created from a Signal emitted while the driver handled
\* Market event m is never filled during the handling of m: its Fill is
\* produced by on_market for a later Market event and is priced from the bar
\* of that later event.
FilledAtLaterMarketBar ==
    \A k \in 1..Len(fills) :
        /\ fills[k].market > drv.order_cause[fills[k].order.id]
        /\ fills[k].bar.Index = fills[k].market
        /\ fills[k].fill.timestamp = fills[k].market

\* C32: portfolio.end_of_day is invoked exactly once for each Market event
\* whose is_eod is true, once the events that Market event triggered have
\* been handled, and never for a Market event whose is_eod is false, in
\* batch mode and in live mode: whenever the inner loop has drained the
\* channel, end_of_day has run as many times as Market events with is_eod
\* have been handled, and a drain that runs it follows such an event.
EndOfDayOncePerEodMarket ==
    /\ drv.pc \in {"outer", "done"} => drv.eod_calls = drv.eod_handled
    /\ (last.op = "drained" /\ last.end_of_day) => drv.event.is_eod

\* the Fill events for ticker t waiting in the channel
WaitingFills(t) ==
    {i \in 1..Len(event_queue) :
        event_queue[i].ev.type = "FILL" /\ event_queue[i].ev.ticker = t}

\* C35: when on_signal handles a Signal for a ticker, every Fill already
\* emitted for that ticker has been applied by on_fill: no Fill for the
\* ticker is waiting behind the Signal in the channel.
NoFillBehindSignal ==
    last.op = "on_signal" => WaitingFills(last.event.ticker) = {}

\* C39: every order the portfolio pushes during a run is filled before the
\* driver exits: when the driver loop has terminated, the order queue holds
\* no MKT order.
NoMktOrderLeftAtExit ==
    drv.pc = "done" =>
        \A i \in 1..Len(order_queue) : order_queue[i].order_type # "MKT"

\* the sum of max(h - l, |h - c_prev|, |l - c_prev|) over hist[i..Len(hist)],
\* c_prev being the close of the bar before
RECURSIVE SumTrueRangeWithPrev(_, _)
SumTrueRangeWithPrev(hist, i) ==
    IF i > Len(hist) THEN 0
    ELSE true_range(hist[i], hist[i - 1].close) + SumTrueRangeWithPrev(hist, i + 1)

\* the arithmetic mean of the True Range of the last atr_window bars
MeanTrueRange(hist) ==
    FDiv(SumTrueRangeWithPrev(hist, Len(hist) - atr_window + 1), Num(atr_window))

FirstAtrStep ==
    \A t \in Tickers :
        /\ (hatr[t] = <<>> /\ hatr'[t] # <<>>)
              => hatr'[t] = <<MeanTrueRange(history'[t])>>
        /\ Len(history'[t]) < atr_window + 1 => hatr'[t] = <<>>

\* C33: the first ATR stored for a ticker is the arithmetic mean of the True
\* Range of the last atr_window bars, each True Range being
\* max(h - l, |h - c_prev|, |l - c_prev|) with c_prev the close of the bar
\* before; nothing is stored while fewer than atr_window + 1 bars are
\* available.
FirstAtrIsMeanTrueRange == [][FirstAtrStep]_vars

-----------------------------------------------------------------------------
(* The dispatch of cli.run's inner loop around the execution handler: the  *)
(* live data source pushes the bars of the tickers that traded, Order      *)
(* events for any ticker of symbol_list arrive on the channel, and the     *)
(* MARKET branch runs execution_handler.on_market (bar_manager has no      *)
(* subscriber here, so its on_heartbeat stores bars and notifies nobody).  *)

DispatchInit ==
    /\ pf = NewPortfolio
    /\ history = [t \in Tickers |-> <<>>]
    /\ hatr = [t \in Tickers |-> <<>>]
    /\ rm_ts = <<>>
    /\ limits = DefaultLimits
    /\ bm = NewBarManager("1m")
    /\ current_positions = NewCurrentPositions
    /\ events = <<>>
    /\ order_queue = <<>>
    /\ latest_symbol_data = [t \in Tickers |-> <<>>]
    /\ fills = <<>>
    /\ event_queue = <<>>
    /\ drv = [NewDriver("live", 0) EXCEPT !.pc = "inner"]
    /\ cnt = ZeroCnt
    /\ last = [op |-> "init"]

\* the aggregator thread ends an interval in which the tickers of traded
\* had messages: _finalize_and_push_bars
DspPush(traded) ==
    /\ drv.pc # "aborted"
    /\ cnt.ticks < MaxTicks
    /\ latest_symbol_data' =
           finalize_bars(latest_symbol_data, traded, DataBars(cnt.ticks + 1),
                         Clock + BaseInterval)
    /\ event_queue' =
           put_all(event_queue, <<MarketEvent(Clock + BaseInterval, FALSE)>>,
                   drv.puts)
    /\ cnt' = [cnt EXCEPT !.ticks = @ + 1]
    /\ drv' = [drv EXCEPT !.puts = @ + 1]
    /\ last' = [op |-> "push"]
    /\ UNCHANGED <<bm, current_positions, limits, pf, history, hatr, rm_ts, events, order_queue, fills>>

\* an Order event is put on the channel
DspPutOrder(o) ==
    /\ drv.pc # "aborted"
    /\ cnt.orders < MaxOrders
    /\ LET event == OrderEvent(cnt.orders + 1, o[1], o[2], o[3], Num(2),
                               Clock + o[4])
       IN /\ event_queue' = put_all(event_queue, <<event>>, drv.puts)
          /\ last' = [op |-> "put_order", event |-> event]
    /\ cnt' = [cnt EXCEPT !.orders = @ + 1]
    /\ drv' = [drv EXCEPT !.puts = @ + 1]
    /\ UNCHANGED <<bm, current_positions, limits, pf, history, hatr, rm_ts, events, execVars>>

\* a MARKET event is taken: mkt_close = event.is_eod and
\* execution_handler.on_market; an exception of on_market leaves cli.run
DspMarket ==
    /\ drv.pc = "inner" /\ event_queue # <<>>
    /\ LET g == queue_get(event_queue)
           event == g.entry.ev
           r == exec_on_market(order_queue, event.is_eod, latest_symbol_data,
                               [t \in Tickers |-> 0])
           out == [i \in 1..Len(r.out) |-> r.out[i].fill]
       IN /\ event.type = "MARKET"
          /\ order_queue' = r.queue
          /\ fills' = fills \o r.out
          /\ event_queue' = put_all(g.rest, out, drv.puts)
          /\ drv' = [drv EXCEPT
                       !.handled = Append(@, g.entry.seq),
                       !.event = event,
                       !.mkt_close = event.is_eod,
                       !.puts = @ + Len(out),
                       !.pc = IF r.raised THEN "aborted" ELSE "inner",
                       !.error = IF r.raised THEN "IndexError" ELSE @]
          /\ last' = [op |-> "on_market", mkt_close |-> event.is_eod, s |-> 0,
                      before |-> order_queue, out |-> r.out, raised |-> r.raised]
    /\ UNCHANGED <<bm, current_positions, limits, pf, history, hatr, rm_ts, events, latest_symbol_data, cnt>>

DispatchNext ==
    \/ \E traded \in TradedSets : DspPush(traded)
    \/ \E o \in OrderInputs : DspPutOrder(o)
    \/ DspMarket
    \/ DrvOrder
    \/ DrvFill

SpecDispatch == DispatchInit /\ [][DispatchNext]_vars

-----------------------------------------------------------------------------
(* The risk manager driven through its interface: is_allowed called with   *)
(* orders of non-decreasing timestamps, under a configuration in which one *)
(* limit, or none, is set to -1.                                           *)

MaxRiskCalls == 4

\* the configurations: the default one and, for each limit, the default
\* one with that limit set to -1
LimitChoices ==
    {DefaultLimits}
    \cup {[DefaultLimits EXCEPT ![k] = Disabled] :
             k \in {"MAX_ORDER_QTY", "MAX_NOTIONAL_VAL", "MAX_DAILY_LOSS",
                    "MAX_GROSS_EXPOSURE", "MAX_NET_EXPOSURE",
                    "PARTICIPATION_LIMIT"}}
    \cup {[DefaultLimits EXCEPT !.RATE_LIMIT = -1]}

\* holdings the portfolio can be in: flat, long 2 A bought at 2, and the
\* same after A's bar closed at 1
LongA ==
    on_fill(NewPortfolio, FillEvent(0, "A", Num(2), BUY, Num(4), Num(2), 0))
LongAMarkedDown ==
    on_interval(LongA, [t \in Tickers |-> <<NewBar(BaseInterval, CalmBars[t])>>])

\* histories of the order's ticker: bars of volume 40 and bars of volume 0
Traded(i) == NewBar(i * BaseInterval, CalmBars["A"])
Untraded(i) == NewBar(i * BaseInterval, GapBars["B"])

\* what is_allowed is called with: <<direction, quantity, holdings,
\* daily open value, history>>
RiskInputs ==
    { <<BUY, Num(2), NewPortfolio, 0, <<Traded(1)>>>>,
      <<BUY, Num(2), NewPortfolio, initial_capital, <<Traded(1), Traded(2)>>>>,
      <<SELL, Num(2), NewPortfolio, initial_capital, <<Traded(1), Traded(2)>>>>,
      <<BUY, Num(2), LongA, initial_capital, <<Traded(1), Traded(2)>>>>,
      <<BUY, Num(2), LongAMarkedDown, initial_capital, <<Traded(1), Traded(2)>>>>,
      <<SELL, Num(2), LongAMarkedDown, initial_capital, <<Traded(1), Traded(2)>>>>,
      <<BUY, Num(30), NewPortfolio, initial_capital, <<Traded(1), Traded(2)>>>>,
      <<BUY, Num(200), NewPortfolio, initial_capital, <<Traded(1)>>>>,
      <<BUY, Num(2), NewPortfolio, initial_capital, <<Untraded(1), Untraded(2)>>>>,
      <<BUY, Num(2), LongA, 0, <<Traded(1), Untraded(2), Untraded(3)>>>>,
      <<SELL, Num(2), NewPortfolio, 0, <<Traded(1), Traded(2), Untraded(3)>>>>,
      <<BUY, Num(2), NewPortfolio, 0, <<>>>> }

\* how far the order's timestamp is after the previous order's, in seconds
TimeSteps == {0, 2}
\* how far time.time() is after the order's timestamp, in seconds
WallClockLeads == {0, 5}

RiskInit ==
    /\ pf = NewPortfolio
    /\ history = [t \in Tickers |-> <<>>]
    /\ hatr = [t \in Tickers |-> <<>>]
    /\ rm_ts = <<>>
    /\ limits \in LimitChoices
    /\ bm = NewBarManager("1m")
    /\ current_positions = NewCurrentPositions
    /\ events = <<>>
    /\ order_queue = <<>>
    /\ latest_symbol_data = [t \in Tickers |-> <<>>]
    /\ fills = <<>>
    /\ event_queue = <<>>
    /\ drv = [NewDriver("batch", 0) EXCEPT !.pc = "idle"]
    /\ cnt = ZeroCnt
    /\ last = [op |-> "init"]

\* is_allowed(order, daily_open_value, history, symbol_list, holdings)
RmIsAllowed(in, dt, lead) ==
    /\ cnt.steps < MaxRiskCalls
    /\ LET order == OrderEvent(cnt.steps + 1, in[1], "A", "MKT", in[2],
                               cnt.ticks + dt)
           now == order.timestamp + lead
           r == is_allowed(order, in[4], in[5], in[3], rm_ts, now)
       IN /\ rm_ts' = r.ts
          /\ last' = [op |-> "is_allowed", order |-> order, holdings |-> in[3],
                      open_value |-> in[4], bars |-> in[5], now |-> now,
                      ts_before |-> rm_ts, allowed |-> r.allowed]
    /\ cnt' = [cnt EXCEPT !.steps = @ + 1, !.ticks = @ + dt]
    /\ UNCHANGED <<bm, current_positions, limits, pf, history, hatr, events, execVars, drvVars>>

RiskNext ==
    \E in \in RiskInputs, dt \in TimeSteps, lead \in WallClockLeads :
        RmIsAllowed(in, dt, lead)

SpecRisk == RiskInit /\ [][RiskNext]_vars

\* the checks of the is_allowed call just made, on its own inputs
LastPrice == Last(last.bars).close
LastPruned == prune_timestamps(last.ts_before, last.now - RATE_INTERVAL)

\* C12: a limit set to -1 disables its check: whatever the order, the
\* holdings and the history of an is_allowed call, the check of a limit
\* that is -1 passes (for the participation limit: unless the average
\* volume of the window is 0).
MinusOneDisables ==
    (last.op = "is_allowed" /\ last.bars # <<>>) =>
        /\ MAX_ORDER_QTY = Disabled => max_order_quantity_check(last.order)
        /\ MAX_NOTIONAL_VAL = Disabled
              => max_notional_value_check(last.order, LastPrice)
        /\ MAX_DAILY_LOSS = Disabled
              => daily_loss_limit_check(last.order, last.holdings,
                                        last.open_value)
        /\ MAX_GROSS_EXPOSURE = Disabled
              => gross_exposure_check(last.order, last.holdings, LastPrice)
        /\ MAX_NET_EXPOSURE = Disabled
              => net_exposure_check(last.order, last.holdings, LastPrice)
        /\ PARTICIPATION_LIMIT = Disabled
              => (Len(last.bars) >= PARTICIPATION_WINDOW
                  /\ SumVolume(last.bars,
                               Len(last.bars) - PARTICIPATION_WINDOW + 1,
                               Len(last.bars)) = 0)
                 \/ participation_check(last.order, last.bars)
        /\ RATE_LIMIT = -1 => rate_limit_check(LastPruned)

\* the checks of is_allowed that come before the participation check pass
\* for the call just made
EarlierChecksPass ==
    /\ last.bars # <<>>
    /\ max_order_quantity_check(last.order)
    /\ max_notional_value_check(last.order, LastPrice)
    /\ daily_loss_limit_check(last.order, last.holdings, last.open_value)
    /\ gross_exposure_check(last.order, last.holdings, LastPrice)
    /\ net_exposure_check(last.order, last.holdings, LastPrice)

\* the history of the call just made has at least PARTICIPATION_WINDOW bars
\* and the volumes of its last PARTICIPATION_WINDOW bars add up to 0
WindowVolumeIsZero ==
    /\ Len(last.bars) >= PARTICIPATION_WINDOW
    /\ SumVolume(last.bars, Len(last.bars) - PARTICIPATION_WINDOW + 1,
                 Len(last.bars)) = 0

\* C14: if the history passed to is_allowed has at least
\* PARTICIPATION_WINDOW bars and the average volume of its last
\* PARTICIPATION_WINDOW bars is 0, the order is rejected, whatever its
\* quantity and whatever the limits.
ZeroVolumeRejects ==
    (last.op = "is_allowed" /\ WindowVolumeIsZero) => ~last.allowed

\* an order that passes every other check was rejected for a window of
\* zero volume that follows a bar with volume
RejectedForZeroVolumeOnly ==
    /\ last.op = "is_allowed"
    /\ WindowVolumeIsZero
    /\ Len(last.bars) > PARTICIPATION_WINDOW
    /\ EarlierChecksPass
    /\ rate_limit_check(LastPruned)
    /\ ~last.allowed

\* the recorded timestamps that are at most RATE_INTERVAL older than the
\* order just checked
KeptByOrderClock ==
    SelectSeq(last.ts_before,
              LAMBDA x : x >= last.order.timestamp - RATE_INTERVAL)

\* C15: the risk manager records the timestamps of accepted orders only,
\* in non-decreasing order; when an order is checked, the recorded
\* timestamps more than RATE_INTERVAL older than the order's timestamp are
\* dropped and the rate-limit check rejects the order iff more than
\* RATE_LIMIT recorded timestamps remain.
RateLimitOnOrderClock ==
    /\ \A i \in 1..Len(rm_ts) - 1 : rm_ts[i] <= rm_ts[i + 1]
    /\ last.op = "is_allowed" =>
          IF EarlierChecksPass /\ participation_check(last.order, last.bars)
          THEN /\ last.allowed = ~(Len(KeptByOrderClock) > RATE_LIMIT)
               /\ rm_ts = IF last.allowed
                          THEN Append(KeptByOrderClock, last.order.timestamp)
                          ELSE KeptByOrderClock
          ELSE ~last.allowed /\ rm_ts = last.ts_before


-----------------------------------------------------------------------------
(* on_signal on its own: the portfolio is brought to long, short and flat  *)
(* positions by fills, the sizer's target and the signal's strength vary,  *)
(* and the bars put the estimated price at 1 or at 4.                      *)

\* the new base bars of the signal runs (open, close, volume)
CheapBars ==
    [t \in Tickers |-> <<Num(1), Num(1), Num(40)>>]
DearBars ==
    [t \in Tickers |-> IF t = "A" THEN <<Num(4), Num(4), Num(40)>>
                                   ELSE <<Num(1), Num(1), Num(40)>>]
SignalBarShapes == {CheapBars, DearBars}

\* the fills that set the position up: <<ticker, direction, quantity,
\* unit_cost>>
SignalFillInputs ==
    { <<"A", BUY, Num(1), Num(1)>>, <<"A", SELL, Num(1), Num(1)>>,
      <<"A", BUY, Num(4), Num(1)>> }
SignalAtrValues == {Milli(20)}
SignalStrengths == {Num(1), Milli(500)}

SignalInit ==
    /\ event_queue = <<>>
    /\ drv = [NewDriver("batch", 0) EXCEPT !.pc = "idle"]
    /\ pf = NewPortfolio
    /\ history = [t \in Tickers |-> <<>>]
    /\ hatr = [t \in Tickers |-> <<>>]
    /\ rm_ts = <<>>
    /\ limits = DefaultLimits
    /\ bm = NewBarManager("1m")
    /\ current_positions = NewCurrentPositions
    /\ events = <<>>
    /\ order_queue = <<>>
    /\ latest_symbol_data = [t \in Tickers |-> <<>>]
    /\ fills = <<>>
    /\ cnt = ZeroCnt
    /\ last = [op |-> "init"]

\* on_signal; last remembers the books the call found (pre), the estimated
\* price and what the call returned
SgOnSignal(t, kind, strength) ==
    /\ cnt.steps < MaxSteps
    /\ pf.has_history
    /\ LET event == SignalEvent(Last(history[t]).Index, t, kind, strength)
           r == on_signal(pf, event, history, hatr[t], rm_ts,
                          event.timestamp + BaseInterval, cnt.orders + 1)
       IN /\ pf' = r.p
          /\ rm_ts' = r.ts
          /\ events' = events \o r.out
          /\ cnt' = [cnt EXCEPT !.steps = @ + 1, !.orders = @ + Len(r.out)]
          /\ last' = [op |-> "on_signal", event |-> event, raised |-> r.raised,
                      out |-> r.out, built |-> r.built,
                      target |-> r.target, unclamped |-> r.unclamped,
                      pre |-> Books(pf, t),
                      estimated_price |-> Last(history[t]).close]
    /\ UNCHANGED <<bm, current_positions, limits, history, hatr, execVars, drvVars>>

SignalNext ==
    \/ \E shape \in SignalBarShapes : PfOnInterval(shape)
    \/ \E atr \in SignalAtrValues : SizerOnInterval("A", atr)
    \/ \E kind \in SignalTypes, strength \in SignalStrengths :
          SgOnSignal("A", kind, strength)
    \/ \E f \in SignalFillInputs : PfOnFill(f)

SpecSignal == SignalInit /\ [][SignalNext]_vars

\* Q of an on_signal call: the sized target multiplied by signal.strength
SizedQ == FMul(last.target, last.event.strength)

OnSignalBuilt(kind) ==
    /\ last.op = "on_signal"
    /\ last.event.signal_type = kind

\* C21: before the affordability clamp, a LONG signal on a position
\* cur <= 0 yields a BUY order of quantity Q + |cur| and a SHORT signal on a
\* position cur >= 0 yields a SELL order of quantity Q + cur.
OpeningOrderQuantity ==
    /\ OnSignalBuilt(LONG) /\ last.pre.position <= 0
         => /\ Len(last.unclamped) = 1
            /\ last.unclamped[1].direction = BUY
            /\ last.unclamped[1].quantity = SizedQ + Abs(last.pre.position)
    /\ OnSignalBuilt(SHORT) /\ last.pre.position >= 0
         => /\ Len(last.unclamped) = 1
            /\ last.unclamped[1].direction = SELL
            /\ last.unclamped[1].quantity = SizedQ + last.pre.position

\* a LONG signal at half strength found the portfolio short: the order
\* closes the short and opens the long
ReversedFromShort ==
    /\ OnSignalBuilt(LONG)
    /\ last.pre.position < 0
    /\ last.event.strength = Milli(500)
    /\ SizedQ > 0
    /\ last.unclamped[1].quantity = SizedQ - last.pre.position

\* C22: a LONG signal received while the position cur is already > 0 moves
\* the position to the target Q: the order (before the clamp) is BUY of
\* Q - cur when Q > cur and SELL of cur - Q otherwise; symmetrically for a
\* SHORT signal received while the position is already < 0.
SameSideMovesToTarget ==
    /\ OnSignalBuilt(LONG) /\ last.pre.position > 0
         => /\ Len(last.unclamped) = 1
            /\ IF SizedQ > last.pre.position
               THEN /\ last.unclamped[1].direction = BUY
                    /\ last.unclamped[1].quantity = SizedQ - last.pre.position
               ELSE /\ last.unclamped[1].direction = SELL
                    /\ last.unclamped[1].quantity = last.pre.position - SizedQ
    /\ OnSignalBuilt(SHORT) /\ last.pre.position < 0
         => /\ Len(last.unclamped) = 1
            /\ IF SizedQ > Abs(last.pre.position)
               THEN /\ last.unclamped[1].direction = SELL
                    /\ last.unclamped[1].quantity = SizedQ - Abs(last.pre.position)
               ELSE /\ last.unclamped[1].direction = BUY
                    /\ last.unclamped[1].quantity = Abs(last.pre.position) - SizedQ

\* C23: an EXIT signal on a ticker whose position cur is non-zero yields
\* exactly one order, on the side opposite to the position, with quantity
\* exactly |cur|, for every cash level and every sizer target (the order is
\* taken as on_signal hands it to the risk manager).
ExitOrderClosesPosition ==
    OnSignalBuilt(EXIT) /\ last.pre.position # 0
        => /\ Len(last.built) = 1
           /\ last.built[1].direction = -Sign(last.pre.position)
           /\ last.built[1].quantity = Abs(last.pre.position)

\* eff_cash of a BUY order: cash plus the margin released by closing an
\* existing short on the ticker
EffCashForBuy ==
    last.pre.cash + (IF last.pre.position < 0 THEN last.pre.margin ELSE 0)

\* the BUY cap floor((eff_cash * cash_buffer) / est_price)
BuyCap == FFloor(FDiv(FMul(EffCashForBuy, cash_buffer), last.estimated_price))

\* C24: every BUY order pushed by on_signal when est_price > 0 has
\* quantity <= floor((eff_cash * cash_buffer) / est_price); when the
\* unclamped quantity exceeds this cap, the order quantity equals the cap.
BuyOrderWithinCap ==
    /\ last.op = "on_signal"
    /\ last.out # <<>>
    /\ last.out[1].direction = BUY
    /\ last.estimated_price > 0
    => /\ last.out[1].quantity <= BuyCap
       /\ last.unclamped[1].quantity > BuyCap => last.out[1].quantity = BuyCap

\* C30: the default commission of a Fill is
\* c = min(max(1.3, k * quantity), 0.005 * fill_cost) with k = 0.013 if
\* quantity <= 500 and k = 0.008 otherwise, for every quantity and fill_cost.
DefaultCommission ==
    last.op = "on_fill"
        => LET quantity == last.event.quantity
               k == IF quantity <= Num(500) THEN Milli(13) ELSE Milli(8)
           IN last.event.commission =
                  Min2(Max2(Milli(1300), FMul(k, quantity)),
                       FMul(Milli(5), last.event.fill_cost))

\* C37: an EXIT signal for a ticker whose position is 0 completes without
\* error, pushes no Order and leaves cash, positions, values, margin and
\* total unchanged.
ExitAtFlatIsQuiet ==
    (OnSignalBuilt(EXIT) /\ last.pre.position = 0)
    => /\ ~last.raised
       /\ last.out = <<>>
       /\ Books(pf, last.event.ticker) = last.pre

\* C38: a HOLD signal never results in an Order event, whatever the current
\* position of its ticker.
HoldPushesNoOrder ==
    OnSignalBuilt(HOLD) => last.out = <<>>

-----------------------------------------------------------------------------
(* BarManager with subscriptions of several subscribers and intervals,     *)
(* fed by a batch data handler: update_bars appends one base bar per       *)
(* ticker and puts the MarketEvent, the driver hands it to on_heartbeat.   *)

MaxSubscriptions == 3
MaxBeats == 2

BaseIntervals == {"1m", "2m"}
Subscribers == {"position_sizer", "portfolio"}

\* the arguments of subscribe: <<interval, ticker, subscriber>>; "7m" is no
\* interval of str_to_seconds
SubscribeInputs ==
    { <<"2m", "A", "position_sizer">>, <<"1m", "A", "portfolio">>,
      <<"1m", "A", "position_sizer">>, <<"1m", "B", "position_sizer">>,
      <<"3m", "A", "portfolio">>, <<"7m", "A", "position_sizer">> }

BarsInit ==
    /\ event_queue = <<>>
    /\ drv = [NewDriver("batch", 0) EXCEPT !.pc = "idle"]
    /\ pf = NewPortfolio
    /\ history = [t \in Tickers |-> <<>>]
    /\ hatr = [t \in Tickers |-> <<>>]
    /\ rm_ts = <<>>
    /\ limits = DefaultLimits
    /\ \E base \in BaseIntervals : bm = NewBarManager(base)
    /\ current_positions = NewCurrentPositions
    /\ events = <<>>
    /\ order_queue = <<>>
    /\ latest_symbol_data = [t \in Tickers |-> <<>>]
    /\ fills = <<>>
    /\ cnt = ZeroCnt
    /\ last = [op |-> "init", subscribed |-> <<>>]

\* s with x appended unless it is an element already
AppendNew(s, x) == IF \E i \in 1..Len(s) : s[i] = x THEN s ELSE Append(s, x)

\* bar_manager.subscribe(interval, ticker, subscriber); last.subscribed
\* lists the subscribers in the order of their first subscription
BmSubscribe(in) ==
    /\ cnt.steps < MaxSubscriptions
    /\ LET r == subscribe(bm, in[1], in[2], in[3])
       IN /\ bm' = r.bm
          /\ last' = [op |-> "subscribe", interval |-> in[1], ticker |-> in[2],
                      subscriber |-> in[3], raised |-> r.raised,
                      subscribed |-> IF r.raised THEN last.subscribed
                                     ELSE AppendNew(last.subscribed, in[3])]
    /\ Step
    /\ UNCHANGED <<limits, current_positions, pf, history, hatr, rm_ts, events,
                   execVars, event_queue, drv>>

\* data_handler.update_bars: a base bar per ticker and the MarketEvent
BmUpdateBars ==
    /\ cnt.ticks < MaxBeats
    /\ event_queue = <<>>
    /\ LET ts == (cnt.ticks + 1) * str_to_seconds(bm.base_interval).seconds
       IN /\ latest_symbol_data' =
                 finalize_bars(latest_symbol_data, Tickers, CalmBars, ts)
          /\ event_queue' = put_all(event_queue, <<MarketEvent(ts, FALSE)>>, 0)
    /\ cnt' = [cnt EXCEPT !.ticks = @ + 1]
    /\ last' = [op |-> "update_bars", subscribed |-> last.subscribed]
    /\ UNCHANGED <<bm, current_positions, limits, pf, history, hatr, rm_ts,
                   events, order_queue, fills, drv>>

\* the driver takes the MarketEvent: bar_manager.on_heartbeat(event)
BmOnHeartbeat ==
    /\ event_queue # <<>>
    /\ LET g == queue_get(event_queue)
           r == bm_on_heartbeat(bm, g.entry.ev, latest_symbol_data)
       IN /\ bm' = r.bm
          /\ event_queue' = g.rest
          /\ last' = [op |-> "on_heartbeat", log |-> r.log,
                      subscribed |-> last.subscribed]
    /\ UNCHANGED <<current_positions, limits, pf, history, hatr, rm_ts, events,
                   execVars, drv, cnt>>

BarsNext ==
    \/ \E in \in SubscribeInputs : BmSubscribe(in)
    \/ BmUpdateBars
    \/ BmOnHeartbeat

SpecBars == BarsInit /\ [][BarsNext]_vars

\* the calls of the last heartbeat, by kind
AggCalls ==
    {i \in 1..Len(last.log) : last.log[i].call = "agg.on_heartbeat"}
IntervalCalls ==
    {i \in 1..Len(last.log) : last.log[i].call = "on_interval"}

\* the keys whose bar closed on the last heartbeat
ClosedKeys == {last.log[i].key : i \in {j \in AggCalls : last.log[j].closed}}

\* the keys a subscriber subscribed to
KeysOf(subscriber) ==
    {k \in DOMAIN bm.subscribers :
        \E i \in 1..Len(bm.subscribers[k]) : bm.subscribers[k][i] = subscriber}

\* C25: on each heartbeat, each subscriber's on_interval is invoked at most
\* once, with one map holding every (ticker, interval) it subscribed to
\* whose bar closed on this heartbeat, and only after all registered
\* (ticker, interval) pairs have been aggregated; a subscriber none of whose
\* bars closed is not invoked.
OneCollatedCallPerSubscriber ==
    last.op = "on_heartbeat"
        => /\ \A i, j \in IntervalCalls :
                 last.log[i].subscriber = last.log[j].subscriber => i = j
           /\ \A i \in IntervalCalls :
                 /\ DOMAIN last.log[i].histories =
                        KeysOf(last.log[i].subscriber) \cap ClosedKeys
                 /\ DOMAIN last.log[i].histories # {}
                 /\ \A k \in DOMAIN last.log[i].histories :
                        last.log[i].histories[k] = bm.history[k]
           /\ {last.log[i].key : i \in AggCalls} =
                  {bm.aggregators[i].key : i \in 1..Len(bm.aggregators)}
           /\ \A i \in IntervalCalls, j \in AggCalls : j < i

\* the position sizer is called once with the two one-minute bars that
\* closed while its two-minute bar is still open
CalledOnceWithTwoOfThree ==
    /\ last.op = "on_heartbeat"
    /\ KeysOf("position_sizer") = {<<"A", "2m">>, <<"A", "1m">>, <<"B", "1m">>}
    /\ ClosedKeys = {<<"A", "1m">>, <<"B", "1m">>}
    /\ \E i \in IntervalCalls :
          /\ last.log[i].subscriber = "position_sizer"
          /\ DOMAIN last.log[i].histories = ClosedKeys

\* the rank of a subscriber by the time of its first subscription
FirstSubscription(subscriber) ==
    CHOOSE i \in 1..Len(last.subscribed) : last.subscribed[i] = subscriber

\* C26: on each heartbeat, the subscribers that are notified are invoked in
\* the order in which they subscribed: a subscriber whose first
\* subscription came earlier is never notified after a subscriber whose
\* first subscription came later.
NotifiedInSubscribeOrder ==
    last.op = "on_heartbeat"
        => \A i, j \in IntervalCalls :
               i < j => FirstSubscription(last.log[i].subscriber)
                            < FirstSubscription(last.log[j].subscriber)

\* interval is a positive integer multiple of the base interval
IsMultipleOfBase(interval) ==
    LET secs == str_to_seconds(interval)
        base == str_to_seconds(bm.base_interval)
    IN /\ ~secs.raised
       /\ secs.seconds > 0
       /\ secs.seconds % base.seconds = 0

\* C27: subscribe(interval, ticker, subscriber) rejects the subscription
\* with an error and registers neither an aggregator nor the subscriber
\* whenever interval is not a positive integer multiple of the base
\* interval.
SubscribeRejectsNonMultiples ==
    /\ last.op = "subscribe" /\ ~IsMultipleOfBase(last.interval) => last.raised
    /\ \A i \in 1..Len(bm.aggregators) :
           IsMultipleOfBase(bm.aggregators[i].key[2])
    /\ \A k \in DOMAIN bm.subscribers : IsMultipleOfBase(k[2])

-----------------------------------------------------------------------------
(* MovingAverageCrossover driven by the bar store: on every heartbeat the  *)
(* bars that closed are appended to the histories and the strategy is      *)
(* called with the histories of those tickers; it may be called again on   *)
(* the same histories.                                                     *)

MaxBars == 4

\* the closes of the bars that close on a heartbeat, per ticker; a ticker
\* outside the domain closes no bar
CloseShapes ==
    { [A |-> Num(1), B |-> Num(3)], [A |-> Num(3), B |-> Num(1)],
      [A |-> Num(2), B |-> Num(2)], [B |-> Num(3)] }

StrategyInit ==
    /\ event_queue = <<>>
    /\ drv = [NewDriver("batch", 0) EXCEPT !.pc = "idle"]
    /\ pf = NewPortfolio
    /\ history = [t \in Tickers |-> <<>>]
    /\ hatr = [t \in Tickers |-> <<>>]
    /\ rm_ts = <<>>
    /\ limits = DefaultLimits
    /\ bm = NewBarManager("1m")
    /\ current_positions = NewCurrentPositions
    /\ events = <<>>
    /\ order_queue = <<>>
    /\ latest_symbol_data = [t \in Tickers |-> <<>>]
    /\ fills = <<>>
    /\ cnt = ZeroCnt
    /\ last = [op |-> "init"]

\* the tickers of closed, in the order of symbol_list
RECURSIVE InSymbolOrder(_, _)
InSymbolOrder(closed, i) ==
    IF i > Len(symbol_list) THEN <<>>
    ELSE (IF symbol_list[i] \in closed THEN <<symbol_list[i]>> ELSE <<>>)
         \o InSymbolOrder(closed, i + 1)

\* strategy.on_interval(histories), histories holding the tickers of keys
StOnInterval(h, keys, repeated) ==
    LET r == generate_signals(current_positions, h, keys)
    IN /\ current_positions' = r.positions
       /\ event_queue' = put_all(event_queue, r.out, Len(event_queue))
       /\ last' = [op |-> "on_interval", keys |-> keys, emitted |-> r.out,
                   repeated |-> repeated]

\* a heartbeat on which the bars of shape close
StHeartbeat(shape) ==
    /\ cnt.ticks < MaxBars
    /\ LET ts == (cnt.ticks + 1) * BaseInterval
           h == [t \in Tickers |->
                    IF t \in DOMAIN shape
                    THEN Append(history[t], MkBar(ts, shape[t], shape[t],
                                                  shape[t], shape[t], Num(40)))
                    ELSE history[t]]
       IN /\ history' = h
          /\ StOnInterval(h, InSymbolOrder(DOMAIN shape, 1), FALSE)
    /\ cnt' = [cnt EXCEPT !.ticks = @ + 1]
    /\ UNCHANGED <<bm, limits, pf, hatr, rm_ts, events, execVars, drv>>

\* on_interval called once more with the histories of the previous call
StRepeat ==
    /\ last.op = "on_interval" /\ ~last.repeated
    /\ StOnInterval(history, last.keys, TRUE)
    /\ UNCHANGED <<bm, limits, pf, history, hatr, rm_ts, events, execVars, drv,
                   cnt>>

StrategyNext ==
    \/ \E shape \in CloseShapes : StHeartbeat(shape)
    \/ StRepeat

SpecStrategy == StrategyInit /\ [][StrategyNext]_vars

\* the kinds of the signals emitted for a ticker so far, oldest first
SignalsFor(t) ==
    LET ForTicker(entry) == entry.ev.ticker = t
        q == SelectSeq(event_queue, ForTicker)
    IN [i \in 1..Len(q) |-> q[i].ev.signal_type]

\* C29: over any sequence of on_interval calls, MovingAverageCrossover never
\* emits two consecutive signals of the same kind for a ticker: LONG and
\* SHORT signals for a ticker strictly alternate, a repeated call on
\* unchanged history emits nothing, and the per-ticker state stays in
\* {-1, 0, +1} and equals the kind of the last signal emitted for that ticker.
SignalsAlternate ==
    /\ \A t \in Tickers :
          LET kinds == SignalsFor(t)
          IN /\ \A i \in 1..Len(kinds) : kinds[i] \in {LONG, SHORT}
             /\ \A i \in 1..(Len(kinds) - 1) : kinds[i] # kinds[i + 1]
             /\ current_positions[t] \in {-1, 0, 1}
             /\ current_positions[t] = IF kinds = <<>> THEN 0 ELSE Last(kinds)
    /\ last.op = "on_interval" /\ last.repeated => last.emitted = <<>>

\* ticker A went LONG and then SHORT, and the call that emitted the SHORT
\* signal was repeated on the same histories
CrossedBackAndRepeated ==
    /\ SignalsFor("A") = <<LONG, SHORT>>
    /\ last.op = "on_interval" /\ last.repeated
    /\ "A" \in {last.keys[i] : i \in 1..Len(last.keys)}
    /\ Last(event_queue).ev.timestamp = Last(history["A"]).Index

-----------------------------------------------------------------------------
(* One BarAggregator behind the BarManager, fed by a data source whose     *)
(* heartbeats can be any number of base intervals apart (nights, weekends) *)
(* and can come before the ticker has any bar (the live source off trading *)
(* hours).  The driver handles each MarketEvent before the next bar is     *)
(* pushed.  Beside the program's state, last lists the Index of the base   *)
(* bars merged into the open bar and into the bar just closed, and the     *)
(* timestamp of the first heartbeat.                                       *)

MaxAggTicks == 6
AggIntervals == {"2m", "3m"}
HeartbeatGaps == {1, 2, 3}

\* the tickers that traded in an interval: all of them or none
QuietOrTraded == {Tickers, {}}

AggInit ==
    /\ event_queue = <<>>
    /\ drv = [NewDriver("live", 0) EXCEPT !.pc = "idle"]
    /\ pf = NewPortfolio
    /\ history = [t \in Tickers |-> <<>>]
    /\ hatr = [t \in Tickers |-> <<>>]
    /\ rm_ts = <<>>
    /\ limits = DefaultLimits
    /\ \E interval \in AggIntervals :
          bm = subscribe(NewBarManager("1m"), interval, "A", "strategy").bm
    /\ current_positions = NewCurrentPositions
    /\ events = <<>>
    /\ order_queue = <<>>
    /\ latest_symbol_data = [t \in Tickers |-> <<>>]
    /\ fills = <<>>
    /\ cnt = ZeroCnt
    /\ last = [op |-> "init", members |-> <<>>, closed |-> <<>>, first |-> <<>>]

\* the data source ends an interval, gap base intervals after the last one
\* it ended: the tickers in traded get a bar, and the MarketEvent is put
AgPush(gap, traded) ==
    /\ cnt.ticks + gap <= MaxAggTicks
    /\ event_queue = <<>>
    /\ LET ts == (cnt.ticks + gap) * str_to_seconds(bm.base_interval).seconds
       IN /\ latest_symbol_data' =
                 finalize_bars(latest_symbol_data, traded, CalmBars, ts)
          /\ event_queue' = put_all(event_queue, <<MarketEvent(ts, FALSE)>>, 0)
    /\ cnt' = [cnt EXCEPT !.ticks = @ + gap]
    /\ last' = [last EXCEPT !.op = "push", !.closed = <<>>]
    /\ UNCHANGED <<bm, current_positions, limits, pf, history, hatr, rm_ts,
                   events, order_queue, fills, drv>>

\* the driver takes the MarketEvent: bar_manager.on_heartbeat(event)
AgOnHeartbeat ==
    /\ event_queue # <<>>
    /\ LET g == queue_get(event_queue)
           r == bm_on_heartbeat(bm, g.entry.ev, latest_symbol_data)
           bars == get_latest_bars(latest_symbol_data, "A")
           merged == IF bars = <<>> THEN last.members
                     ELSE Append(last.members, bars[1].Index)
           closed == r.log[1].closed
       IN /\ bm' = r.bm
          /\ event_queue' = g.rest
          /\ last' = [op |-> "on_heartbeat",
                      members |-> IF closed THEN <<>> ELSE merged,
                      closed |-> IF closed THEN <<merged>> ELSE <<>>,
                      first |-> IF last.first = <<>> THEN <<g.entry.ev.timestamp>>
                                ELSE last.first]
    /\ UNCHANGED <<current_positions, limits, pf, history, hatr, rm_ts, events,
                   execVars, drv, cnt>>

AggNext ==
    \/ \E gap \in HeartbeatGaps, traded \in QuietOrTraded : AgPush(gap, traded)
    \/ AgOnHeartbeat

SpecAgg == AggInit /\ [][AggNext]_vars

\* the aggregator of the run
TheAggregator == bm.aggregators[1].agg

\* the number of the window of length interval, counted from the first
\* heartbeat, that holds timestamp ts
WindowOf(ts) == (ts - last.first[1]) \div TheAggregator.interval

\* C40: every closed aggregated bar of (ticker, interval) is built from
\* exactly interval / base_interval consecutive base bars, all in one
\* window of the interval, for any sequence of heartbeat timestamps,
\* gaps and heartbeats with no bar included.
ClosedBarIsOneFullWindow ==
    (last.op = "on_heartbeat" /\ last.closed # <<>>) =>
        LET m == last.closed[1]
        IN /\ Len(m) * TheAggregator.base_interval = TheAggregator.interval
           /\ \A i \in 1..(Len(m) - 1) :
                  m[i + 1] = m[i] + TheAggregator.base_interval
           /\ \A i \in 1..Len(m) : WindowOf(m[i]) = WindowOf(m[1])

====
